---------------------------- MODULE Spec2Model ----------------------------
(***************************************************************************)
(* Model of the neighbor-joining core of mattools (mat nj): the tree       *)
(* builder nj, the quartet support estimator quartet_all with its two      *)
(* support functions support_full and support_sample.                      *)
(*                                                                         *)
(* Numbers.  The code computes in double.  The model computes in exact     *)
(* fixed point: every distance of the working matrix, every divergence     *)
(* r[i] and every branch length is an integer multiple of 1/Scale(size),   *)
(* where Scale(size) is chosen so that every division the code performs    *)
(* (by n-2 and by 2.0) is exact on the inputs of the model.  A support     *)
(* value is the pair <<p, q>> standing for the double p/q; <<0, 0>> is the *)
(* NaN that the double division 0.0/0 yields.                              *)
(***************************************************************************)
EXTENDS Integers, Sequences, FiniteSets, TLC

VARIABLES
    pc,             \* position of mat_nj / of the support call
    size,           \* m.get_size()
    m,              \* the input matrix (distance): m[i][j], unscaled
    support,        \* mat_nj: local flag `support`
    support_fn,     \* "support_full" or "support_sample"
    sample_size,    \* static size_t sample_size
    local_copy,     \* nj: the working copy, in units of 1/Scale(size)
    n,              \* nj: the active size
    r,              \* nj: the divergence vector, in units of 1/Scale(size)
    min_i, min_j,   \* nj: the selected pair
    min_value,      \* nj: Q of the selected pair
    unjoined_nodes, \* nj: slot -> handle of the node held at the slot
    pool,           \* tree.pool: handle -> node
    empty_node_ptr, \* nj: next free pool slot
    root,           \* tree.root
    qi,             \* quartet_all: loop index i (size - 2: the root)
    qside,          \* quartet_all: the branch of the node that is next
    buffer,         \* the coloring handed to the support function
    quartets,       \* support_sample: the std::set of sampled quartets
    ret,            \* the value returned by the support function
    seed,           \* static unsigned long seed
    engine,         \* support_sample: state of the std::default_random_engine
    drawn,          \* per sampling loop of the run: its quartets, its result
    argv,           \* mat_nj: the options of the command line, in order
    matrices,       \* mat_nj: the matrices parse_all returned
    mat_idx,        \* mat_nj: position of the loop over the matrices
    exit_code,      \* exit status of the process (NULL while it runs)
    stdout,         \* the lines written to std::cout
    run,            \* which of two successive runs of the command line this is
    first_run,      \* what the first run left behind: stdout, drawn, exit_code
    self_matrix,    \* sample2, common_names, mantel: the matrix `self`
    other_matrix,   \* common_names, mantel: the matrix `other`
    name_list,      \* sample2: the names first .. last
    result,         \* what sample2, common_names, mantel returned
    new_self,       \* mantel: self projected onto the common names
    new_other,      \* mantel: other projected onto the common names
    orig,           \* mantel: the observed statistic (sum of squares)
    indices,        \* mantel: the index vector that is shuffled
    montecarlo,     \* mantel: the statistics of the trials (sums of squares)
    flags,          \* mat format, mat grep: what the command line has set
    loops           \* mantel: the run of the two nested loops over the pairs

\* the variables no step of nj, quartet_all and the support functions changes
outer == <<argv, matrices, mat_idx, exit_code, stdout, run, first_run>>

\* the variables of the functions on matrices and of mantel
tools == <<self_matrix, other_matrix, name_list, result, new_self,
           new_other, orig, indices, montecarlo, flags, loops>>

\* the variables of mat nj other than pc
njvars_but_pc ==
    <<size, m, support, support_fn, sample_size, local_copy, n, r, min_i,
      min_j, min_value, unjoined_nodes, pool, empty_node_ptr, root, qi, qside,
      buffer, quartets, ret, seed, engine, drawn, argv, matrices, mat_idx,
      exit_code, stdout, run, first_run>>

\* the variables of mat nj
njvars == <<pc, size, m, support, support_fn, sample_size, local_copy, n, r,
            min_i, min_j, min_value, unjoined_nodes, pool, empty_node_ptr,
            root, qi, qside, buffer, quartets, ret, seed, engine, drawn, argv,
            matrices, mat_idx, exit_code, stdout, run, first_run>>

vars == <<njvars, tools>>

-----------------------------------------------------------------------------
(* Bounds of the model *)

\* largest matrix size handed to nj
MaxSize == 5

\* largest --sample-size
MaxSample == 2

\* largest number of options on the command line of mat nj on one matrix
MaxArgs == 1

\* largest number of options on the command line of the runs
MaxOptions == 3

\* largest number of names of a matrix handed to sample2, common_names, mantel
MaxNames == 3

\* number of trials of mantel in the model (the code runs 100000)
MaxRuns == 3

\* the distances an input matrix of mat nj is drawn from
DistVals == {2, 4}

\* largest matrix size handed to the support functions directly
MaxLeaves == 6

\* the pairs <<within, across>> of distances of the matrices handed to the
\* support functions directly: equal up to 5 %, and far apart
SplitVals == {<<20, 21>>, <<10, 20>>}

\* the values an uninitialised double of row_k may hold (units of 1/Scale)
GarbageVals == {0, 1}

\* the values std::random_device may deliver
EntropyVals == {1, 2}

\* the values of --seed
SeedVals == {0, 5}

-----------------------------------------------------------------------------
(* Program constants *)

\* mat_nj rejects matrices with fewer names
MinSize == 4

\* nullptr
NULL == -1

SET_D == 0
SET_A == 1
SET_B == 2
SET_C == 3

\* static double PRECISION = 0.05, in per cent
PRECISION_PCT == 5

\* close_enough(a, b): a * (1 - PRECISION) <= b <= a * (1 + PRECISION)
close_enough(a, b) ==
    /\ a * (100 - PRECISION_PCT) <= 100 * b
    /\ 100 * b <= a * (100 + PRECISION_PCT)

-----------------------------------------------------------------------------
(* Arithmetic helpers *)

RECURSIVE Fact(_)
Fact(k) == IF k <= 1 THEN 1 ELSE k * Fact(k - 1)

RECURSIVE Pow2(_)
Pow2(k) == IF k <= 0 THEN 1 ELSE 2 * Pow2(k - 1)

\* The denominators nj produces on a matrix of size s: a join at active size
\* k divides by k-2 and by 2, and every join halves the entries once more.
Scale(s) == Pow2(s - 3) * Fact(s - 2)

RECURSIVE SumTo(_, _)
\* std::accumulate(row, row + k, 0.0)
SumTo(row, k) == IF k = 0 THEN 0 ELSE SumTo(row, k - 1) + row[k - 1]

-----------------------------------------------------------------------------
(* Tree nodes *)

\* tree_node{} and tree_node{index}: a node without children
LeafNode(idx) ==
    [left_branch |-> NULL, right_branch |-> NULL,
     left_dist |-> 0, right_dist |-> 0,
     left_support |-> <<0, 1>>, right_support |-> <<0, 1>>,
     index |-> idx]

\* tree_node{lb, rb, ld, rd}
BranchNode(lb, rb, ld, rd) ==
    [left_branch |-> lb, right_branch |-> rb,
     left_dist |-> ld, right_dist |-> rd,
     left_support |-> <<0, 1>>, right_support |-> <<0, 1>>,
     index |-> -1]

\* tree_root{}
EmptyRoot ==
    [left_branch |-> NULL, right_branch |-> NULL, extra_branch |-> NULL,
     left_dist |-> 0, right_dist |-> 0, extra_dist |-> 0,
     left_support |-> <<0, 1>>, right_support |-> <<0, 1>>,
     extra_support |-> <<0, 1>>,
     index |-> 0]

\* tree_root{lb, rb, eb, ld, rd, ed}
RootNode(lb, rb, eb, ld, rd, ed) ==
    [left_branch |-> lb, right_branch |-> rb, extra_branch |-> eb,
     left_dist |-> ld, right_dist |-> rd, extra_dist |-> ed,
     left_support |-> <<0, 1>>, right_support |-> <<0, 1>>,
     extra_support |-> <<0, 1>>,
     index |-> -1]

-----------------------------------------------------------------------------
(* Input matrices *)

UpperPairs(s) == {p \in (0 .. s - 1) \X (0 .. s - 1) : p[1] < p[2]}

\* the symmetric zero-diagonal matrix with upper triangle f
SymMatrix(s, f) ==
    [i \in 0 .. s - 1 |-> [j \in 0 .. s - 1 |->
        IF i = j THEN 0 ELSE IF i < j THEN f[<<i, j>>] ELSE f[<<j, i>>]]]

\* the cell below the diagonal that may differ from its mirror cell
DeviatingCell == <<2, 1>>

\* the matrices a parser can deliver: symmetric ones, and ones in which the
\* deviating cell differs from its mirror cell (a full-square input file)
InputMatrices(s) ==
    LET sym == {SymMatrix(s, f) : f \in [UpperPairs(s) -> DistVals]}
    IN  sym \cup
        {[a EXCEPT ![DeviatingCell[1]][DeviatingCell[2]] = v] :
            a \in sym, v \in DistVals}

IsSymmetric(M, k) == \A i, j \in 0 .. k - 1 : M[i][j] = M[j][i]

-----------------------------------------------------------------------------
(* nj: selection of the pair to join *)

\* Divergence dividing by k - 1
\* (faulty variant, C3 must notice)
DivergenceOffByOne(M, k, old) ==
    [i \in DOMAIN old |-> IF i < k THEN SumTo(M[i], k) \div (k - 1) ELSE old[i]]

\* r[i] = accumulate(row(i), row(i) + k) / (k - 2) for the active rows
Divergence(M, k, old) ==
    [i \in DOMAIN old |-> IF i < k THEN SumTo(M[i], k) \div (k - 2) ELSE old[i]]

\* value = local_copy.entry(i, j) - r[i] - r[j]
QValue(M, rr, i, j) == M[i][j] - rr[i] - rr[j]

RECURSIVE ScanFromLast(_, _, _, _, _)
\* ScanFrom replacing the minimum on `<=` instead of `<`
\* (faulty variant: ties resolve to the last pair, C2 must notice)
ScanFromLast(M, rr, k, idx, best) ==
    IF idx >= k * k THEN best
    ELSE LET i == idx \div k
             j == idx % k
             value == QValue(M, rr, i, j)
         IN  IF i # j /\ value <= best[3]
             THEN ScanFromLast(M, rr, k, idx + 1, <<i, j, value>>)
             ELSE ScanFromLast(M, rr, k, idx + 1, best)

RECURSIVE ScanFrom(_, _, _, _, _)
\* The double loop over i and j of nj, from position idx = i * k + j on;
\* best = <<min_i, min_j, min_value>> is replaced on a strictly smaller value.
ScanFrom(M, rr, k, idx, best) ==
    IF idx >= k * k THEN best
    ELSE LET i == idx \div k
             j == idx % k
             value == QValue(M, rr, i, j)
         IN  IF i # j /\ value < best[3]
             THEN ScanFrom(M, rr, k, idx + 1, <<i, j, value>>)
             ELSE ScanFrom(M, rr, k, idx + 1, best)

\* the scan of nj, started with the pair (0, 1)
ScanMin(M, rr, k) == ScanFrom(M, rr, k, 0, <<0, 1, QValue(M, rr, 0, 1)>>)

\* force i < j
ForceOrder(best) ==
    IF best[2] < best[1] THEN <<best[2], best[1], best[3]>> ELSE best

\* One pass of the loop head of nj: divergences, scan, swap.
NjSelect ==
    /\ pc = "nj_select"
    /\ n > 3
    /\ LET rr == Divergence(local_copy, n, r)
           best == ForceOrder(ScanMin(local_copy, rr, n))
       IN  /\ r' = rr
           /\ min_i' = best[1]
           /\ min_j' = best[2]
           /\ min_value' = best[3]
    /\ pc' = "nj_join"
    /\ UNCHANGED <<size, m, support, support_fn, sample_size, local_copy, n,
                   unjoined_nodes, pool, empty_node_ptr, root, qi, qside,
                   buffer, quartets, ret>>
    /\ UNCHANGED <<seed, engine, drawn, outer>>
    /\ UNCHANGED tools

-----------------------------------------------------------------------------
(* nj: the join *)

\* row_k: the distances of the new node; row_k[min_i] = 0 and
\* row_k[min_j] = row_k[k - 1], which no statement has set when min_j = k - 1
\* (g is the value the uninitialised double holds then)
RowK(M, k, mi, mj, g) ==
    LET M_ij == M[mi][mj]
        comp == [c \in 0 .. k - 1 |->
                    IF c = mi \/ c = mj THEN g
                    ELSE (M[mi][c] + M[mj][c] - M_ij) \div 2]
    IN  [c \in 0 .. k - 1 |->
            IF c = mi THEN 0 ELSE IF c = mj THEN comp[k - 1] ELSE comp[c]]

\* only the first memmove: the row of the last active slot is not moved
\* (faulty variant: slot min_j keeps the distances of the joined node, C24
\* must notice)
MoveRowsFirstOnly(M, k, mi, mj, rowk) ==
    [M EXCEPT ![mi] = [c \in DOMAIN M[mi] |->
                    IF c < k THEN rowk[c] ELSE M[mi][c]]]

\* the two memmove calls: row mi <- row_k, then row mj <- row k-1 (k doubles)
MoveRows(M, k, mi, mj, rowk) ==
    LET M1 == [M EXCEPT ![mi] = [c \in DOMAIN M[mi] |->
                    IF c < k THEN rowk[c] ELSE M[mi][c]]]
    IN  [M1 EXCEPT ![mj] = [c \in DOMAIN M1[mj] |->
                    IF c < k THEN M1[k - 1][c] ELSE M1[mj][c]]]

\* M(min_i, min_i) = M(min_j, min_j) = 0.0
ZeroDiagonal(M, mi, mj) == [M EXCEPT ![mi][mi] = 0, ![mj][mj] = 0]

\* for (i < k) M(i, col) = M(col, i)
MirrorColumn(M, k, col) ==
    [i \in DOMAIN M |-> IF i < k /\ i # col
                        THEN [M[i] EXCEPT ![col] = M[col][i]]
                        ELSE M[i]]

\* the update of the working matrix by one join
JoinMatrix(M, k, mi, mj, g) ==
    LET moved == MoveRows(M, k, mi, mj, RowK(M, k, mi, mj, g))
        zeroed == ZeroDiagonal(moved, mi, mj)
    IN  MirrorColumn(MirrorColumn(zeroed, k, mi), k, mj)

\* LeftLength clamped at zero
\* (faulty variant: a negative length is not kept, C4 must notice)
LeftLengthClamped(M, rr, mi, mj) ==
    IF (M[mi][mj] + rr[mi] - rr[mj]) \div 2 < 0 THEN 0
    ELSE (M[mi][mj] + rr[mi] - rr[mj]) \div 2

\* left and right length of the new branch node
LeftLength(M, rr, mi, mj) == (M[mi][mj] + rr[mi] - rr[mj]) \div 2
RightLength(M, rr, mi, mj) == (M[mi][mj] - rr[mi] + rr[mj]) \div 2

\* Compact without the move of the last active slot into slot min_j
\* (faulty variant: the node of the last slot is lost, C1 must notice)
CompactNoMove(un, k, mi, mj, new) == [un EXCEPT ![mi] = new]

\* unjoined_nodes[min_i] = the new node; unjoined_nodes[min_j] = the node
\* of the last active slot
Compact(un, k, mi, mj, new) == [un EXCEPT ![mi] = new, ![mj] = un[k - 1]]

\* the loop body with an active size that shrinks by two per join
\* (faulty variant, C25 must notice)
NjJoinShrinksTwice ==
    /\ pc = "nj_join"
    /\ \E g \in (IF min_j = n - 1 THEN GarbageVals ELSE {0}) :
          local_copy' = JoinMatrix(local_copy, n, min_i, min_j, g)
    /\ pool' = [pool EXCEPT ![empty_node_ptr] =
                    BranchNode(unjoined_nodes[min_i], unjoined_nodes[min_j],
                               LeftLength(local_copy, r, min_i, min_j),
                               RightLength(local_copy, r, min_i, min_j))]
    /\ empty_node_ptr' = empty_node_ptr + 1
    /\ unjoined_nodes' = Compact(unjoined_nodes, n, min_i, min_j,
                                  empty_node_ptr)
    /\ n' = n - 2
    /\ pc' = "nj_select"
    /\ UNCHANGED <<size, m, support, support_fn, sample_size, r, min_i, min_j,
                   min_value, root, qi, qside, buffer, quartets, ret>>
    /\ UNCHANGED <<seed, engine, drawn, outer>>
    /\ UNCHANGED tools

\* The rest of the loop body of nj: new node, compaction, matrix update.
NjJoin ==
    /\ pc = "nj_join"
    /\ \E g \in (IF min_j = n - 1 THEN GarbageVals ELSE {0}) :
          local_copy' = JoinMatrix(local_copy, n, min_i, min_j, g)
    /\ pool' = [pool EXCEPT ![empty_node_ptr] =
                    BranchNode(unjoined_nodes[min_i], unjoined_nodes[min_j],
                               LeftLength(local_copy, r, min_i, min_j),
                               RightLength(local_copy, r, min_i, min_j))]
    /\ empty_node_ptr' = empty_node_ptr + 1
    /\ unjoined_nodes' = Compact(unjoined_nodes, n, min_i, min_j,
                                  empty_node_ptr)
    /\ n' = n - 1
    /\ pc' = "nj_select"
    /\ UNCHANGED <<size, m, support, support_fn, sample_size, r, min_i, min_j,
                   min_value, root, qi, qside, buffer, quartets, ret>>
    /\ UNCHANGED <<seed, engine, drawn, outer>>
    /\ UNCHANGED tools

\* RootExtraLength with the formula of the right branch
\* (faulty variant, C5 must notice)
RootExtraLengthAsRight(M) == (M[0][1] + M[1][2] - M[0][2]) \div 2

\* RootLeftLength with the formula of the extra branch
\* (faulty variant, C30 must notice)
RootLeftLengthAsExtra(M) == (M[0][2] + M[1][2] - M[0][1]) \div 2

\* the three branch lengths of the root
RootLeftLength(M) == (M[0][1] + M[0][2] - M[1][2]) \div 2
RootRightLength(M) == (M[0][1] + M[1][2] - M[0][2]) \div 2
RootExtraLength(M) == (M[0][2] + M[1][2] - M[0][1]) \div 2

\* join three remaining nodes
NjRoot ==
    /\ pc = "nj_select"
    /\ n <= 3
    /\ root' = RootNode(unjoined_nodes[0], unjoined_nodes[1], unjoined_nodes[2],
                     RootLeftLength(local_copy), RootRightLength(local_copy),
                     RootExtraLength(local_copy))
    /\ pc' = IF support THEN "quartet_all" ELSE "to_newick"
    /\ UNCHANGED <<size, m, support, support_fn, sample_size, local_copy, n, r,
                   min_i, min_j, min_value, unjoined_nodes, pool,
                   empty_node_ptr, qi, qside, buffer, quartets, ret>>
    /\ UNCHANGED <<seed, engine, drawn, outer>>
    /\ UNCHANGED tools

-----------------------------------------------------------------------------
(* The support functions *)

\* the double 0.0 / 0
NaN == <<0, 0>>

\* 1 - (static_cast<double>(non) / total)
OneMinusRatio(non, total) ==
    IF total = 0 THEN NaN ELSE <<total - non, total>>

\* the indices 0 .. size-1 in ascending order whose color is c
IndicesOf(buf, s, c) ==
    SelectSeq([k \in 1 .. s |-> k - 1], LAMBDA i : buf[i] = c)

\* set_sizes[c]
SetSize(buf, s, c) == Len(IndicesOf(buf, s, c))

\* quartet_number
QuartetNumber(buf, s) ==
    SetSize(buf, s, SET_A) * SetSize(buf, s, SET_B) *
    SetSize(buf, s, SET_C) * SetSize(buf, s, SET_D)

\* NonSupporting with the tolerance of close_enough: an alternative sum
\* counts only if it is smaller and not close to D_abcd
\* (variant that treats near-ties as non-contradicting, C8 must notice)
NonSupportingTolerant(d, q) ==
    LET D_abcd == d[q[1]][q[2]] + d[q[3]][q[4]]
        D_acbd == d[q[1]][q[3]] + d[q[2]][q[4]]
        D_adbc == d[q[1]][q[4]] + d[q[2]][q[3]]
    IN  \/ D_acbd < D_abcd /\ ~close_enough(D_abcd, D_acbd)
        \/ D_adbc < D_abcd /\ ~close_enough(D_abcd, D_adbc)

\* the test of one quartet in support_full and in support_sample
NonSupporting(d, q) ==
    LET D_abcd == d[q[1]][q[2]] + d[q[3]][q[4]]
    IN  \/ d[q[1]][q[3]] + d[q[2]][q[4]] < D_abcd
        \/ d[q[1]][q[4]] + d[q[2]][q[3]] < D_abcd

\* FullVisits without the innermost loop: D stays at the first index of its
\* class (faulty variant, C7 must notice)
FullVisitsFirstD(buf, s) ==
    LET sA == IndicesOf(buf, s, SET_A)
        sB == IndicesOf(buf, s, SET_B)
        sC == IndicesOf(buf, s, SET_C)
        sD == IndicesOf(buf, s, SET_D)
        nB == Len(sB)
        nC == Len(sC)
        nD == Len(sD)
    IN  [k \in 1 .. Len(sA) * nB * nC * nD |->
            <<sA[((k - 1) \div (nB * nC * nD)) + 1],
              sB[(((k - 1) \div (nC * nD)) % nB) + 1],
              sC[(((k - 1) \div nD) % nC) + 1],
              sD[1]>>]

\* The quartets <<A, B, C, D>> in the order the four nested loops of
\* support_full reach quartet_counter++ (D runs fastest).
FullVisits(buf, s) ==
    LET sA == IndicesOf(buf, s, SET_A)
        sB == IndicesOf(buf, s, SET_B)
        sC == IndicesOf(buf, s, SET_C)
        sD == IndicesOf(buf, s, SET_D)
        nB == Len(sB)
        nC == Len(sC)
        nD == Len(sD)
    IN  [k \in 1 .. Len(sA) * nB * nC * nD |->
            <<sA[((k - 1) \div (nB * nC * nD)) + 1],
              sB[(((k - 1) \div (nC * nD)) % nB) + 1],
              sC[(((k - 1) \div nD) % nC) + 1],
              sD[((k - 1) % nD) + 1]>>]

\* support_full
SupportFull(d, buf, s) ==
    LET visits == FullVisits(buf, s)
        quartet_counter == Len(visits)
        non_supporting_counter ==
            Cardinality({k \in 1 .. Len(visits) : NonSupporting(d, visits[k])})
    IN  OneMinusRatio(non_supporting_counter, quartet_counter)

\* memcmp order of two quartets (any total order serves std::set)
QuartetLess(p, q) ==
    \E k \in 1 .. 4 : p[k] < q[k] /\ \A l \in 1 .. k - 1 : p[l] = q[l]

\* FirstOfSet that stops one element early (faulty variant, C11 must notice)
FirstOfSetShort(S, k) ==
    {q \in S : Cardinality({p \in S : QuartetLess(p, q)}) < k - 1}

\* the first k elements of the std::set in iteration order
FirstOfSet(S, k) ==
    {q \in S : Cardinality({p \in S : QuartetLess(p, q)}) < k}

\* The call through support_fn when it points to support_full.
SupportFullCall ==
    /\ pc = "support_call"
    /\ support_fn = "support_full"
    /\ ret' = SupportFull(m, buffer, size)
    /\ pc' = "support_return"
    /\ UNCHANGED <<size, m, support, support_fn, sample_size, local_copy, n, r,
                   min_i, min_j, min_value, unjoined_nodes, pool,
                   empty_node_ptr, root, qi, qside, buffer, quartets>>
    /\ UNCHANGED <<seed, engine, drawn, outer>>
    /\ UNCHANGED tools

\* std::default_random_engine{seed}: the linear congruential engine
\* x -> 16807 * x mod (2^31 - 1) (minstd_rand0, the default engine of
\* libstdc++), whose state is never 0
EngineSeed(s) == IF s % 2147483647 = 0 THEN 1 ELSE s % 2147483647

\* one call of the engine: 16807 * x mod (2^31 - 1), computed without
\* leaving 32 bits (16807 * 127773 + 2836 = 2^31 - 1)
EngineNext(x) ==
    LET t == 16807 * (x % 127773) - 2836 * (x \div 127773)
    IN  IF t > 0 THEN t ELSE t + 2147483647

RECURSIVE UniformDraw(_, _)
\* dists[c](engine) of std::uniform_int_distribution<size_t>{0, k - 1}:
\* the engine's values 1 .. 2^31 - 2 are scaled down to 0 .. k - 1, values
\* past the last full block are drawn again; <<number, engine afterwards>>
UniformDraw(x, k) ==
    LET y == EngineNext(x)
        scaling == 2147483645 \div k
    IN  IF y - 1 >= k * scaling THEN UniformDraw(y, k)
        ELSE <<(y - 1) \div scaling, y>>

\* support_sample up to the sampling loop: delegate to support_full when
\* there are fewer quartets than sample_size; else, if the static seed is
\* 0, replace it by a value of std::random_device, seed the engine and
\* start with an empty set.
SupportSampleEnter ==
    /\ pc = "support_call"
    /\ support_fn = "support_sample"
    /\ IF QuartetNumber(buffer, size) < sample_size
       THEN /\ ret' = SupportFull(m, buffer, size)
            /\ pc' = "support_return"
            /\ UNCHANGED <<quartets, seed, engine>>
       ELSE /\ quartets' = {}
            /\ \E rd \in (IF seed = 0 THEN EntropyVals ELSE {seed}) :
                  /\ seed' = rd
                  /\ engine' = EngineSeed(rd)
            /\ pc' = "sampling"
            /\ UNCHANGED ret
    /\ UNCHANGED <<size, m, support, support_fn, sample_size, local_copy, n, r,
                   min_i, min_j, min_value, unjoined_nodes, pool,
                   empty_node_ptr, root, qi, qside, buffer>>
    /\ UNCHANGED <<drawn, outer>>
    /\ UNCHANGED tools

\* SampledQuartet with the members C and D exchanged
\* (faulty variant, C10 must notice)
SampledQuartetSwapped(iA, iB, iC, iD, a, b, c, d) ==
    <<iA[a + 1], iB[b + 1], iD[d + 1], iC[c + 1]>>

\* struct quartet q = {indices_A[..], indices_B[..], indices_C[..],
\* indices_D[..]} for the draws a, b, c, d
SampledQuartet(iA, iB, iC, iD, a, b, c, d) ==
    <<iA[a + 1], iB[b + 1], iC[c + 1], iD[d + 1]>>

\* One pass of `while (quartets.size() < sample_size)`: one draw per class
\* in the order A, B, C, D, each converted to a matrix index, and the
\* quartet inserted into the set.
SampleDraw ==
    /\ pc = "sampling"
    /\ Cardinality(quartets) < sample_size
    /\ LET iA == IndicesOf(buffer, size, SET_A)
           iB == IndicesOf(buffer, size, SET_B)
           iC == IndicesOf(buffer, size, SET_C)
           iD == IndicesOf(buffer, size, SET_D)
           a == UniformDraw(engine, Len(iA))
           b == UniformDraw(a[2], Len(iB))
           c == UniformDraw(b[2], Len(iC))
           d == UniformDraw(c[2], Len(iD))
       IN  /\ quartets' = quartets \cup
                            {SampledQuartet(iA, iB, iC, iD,
                                            a[1], b[1], c[1], d[1])}
           /\ engine' = d[2]
    /\ UNCHANGED <<pc, size, m, support, support_fn, sample_size, local_copy,
                   n, r, min_i, min_j, min_value, unjoined_nodes, pool,
                   empty_node_ptr, root, qi, qside, buffer, ret>>
    /\ UNCHANGED <<seed, drawn, outer>>
    /\ UNCHANGED tools

\* The evaluation loop of support_sample over the first sample_size quartets
\* of the set, and the return.
SampleFinish ==
    /\ pc = "sampling"
    /\ ~(Cardinality(quartets) < sample_size)
    /\ LET non_supporting_counter ==
               Cardinality({q \in FirstOfSet(quartets, sample_size) :
                               NonSupporting(m, q)})
       IN  ret' = OneMinusRatio(non_supporting_counter, sample_size)
    /\ drawn' = Append(drawn, [quartets |-> quartets, support |-> ret'])
    /\ pc' = "support_return"
    /\ UNCHANGED <<size, m, support, support_fn, sample_size, local_copy, n, r,
                   min_i, min_j, min_value, unjoined_nodes, pool,
                   empty_node_ptr, root, qi, qside, buffer, quartets>>
    /\ UNCHANGED <<seed, engine, outer>>
    /\ UNCHANGED tools

-----------------------------------------------------------------------------
(* quartet_all *)

RECURSIVE LeafIndices(_, _)
\* the indices that tree_node::traverse hands to the lambda of colorize as
\* leaves (nodes without left branch) below the node with handle h
LeafIndices(P, h) ==
    (IF P[h].left_branch # NULL
     THEN LeafIndices(P, P[h].left_branch) ELSE {P[h].index})
    \cup
    (IF P[h].right_branch # NULL
     THEN LeafIndices(P, P[h].right_branch) ELSE {})

\* colorize(self, buffer, color)
Colorize(P, h, buf, color) ==
    IF h = NULL THEN buf
    ELSE [i \in DOMAIN buf |-> IF i \in LeafIndices(P, h) THEN color ELSE buf[i]]

\* the coloring with the colors of the two near subtrees exchanged
\* (faulty variant, C26 must notice)
ColoringSwapped(P, s, a, b, c) ==
    Colorize(P, c,
        Colorize(P, b,
            Colorize(P, a, [i \in 0 .. s - 1 |-> SET_D], SET_B), SET_A), SET_C)

\* std::vector<uint8_t>(distance.get_size(), SET_D) colored A, B, C
Coloring(P, s, a, b, c) ==
    Colorize(P, c,
        Colorize(P, b,
            Colorize(P, a, [i \in 0 .. s - 1 |-> SET_D], SET_A), SET_B), SET_C)

\* the node quartet_all is at: inner_nodes[i], after the loop the root
NodeAt(P, rt, s, i) == IF i < s - 2 THEN P[s + i] ELSE rt

\* the test of the branch without the test of the child's children: every
\* branch of a node with children is evaluated (faulty variant, C23 must
\* notice)
EvaluatesLeafChild(P, self, side) ==
    CASE side = "left" -> self.left_branch # NULL
      [] side = "right" -> self.left_branch # NULL
      [] side = "extra" -> TRUE

\* whether quartet_left, quartet_right, the root->extra case evaluate
Evaluates(P, self, side) ==
    CASE side = "left" ->
            self.left_branch # NULL /\ P[self.left_branch].left_branch # NULL
      [] side = "right" ->
            self.left_branch # NULL /\ P[self.right_branch].left_branch # NULL
      [] side = "extra" ->
            P[self.extra_branch].left_branch # NULL

\* the coloring without the colorize call of the far side (faulty variant,
\* C28 must notice)
EdgeColoringWithoutFar(P, s, self, side) ==
    CASE side = "left" ->
            Coloring(P, s, P[self.left_branch].left_branch,
                     P[self.left_branch].right_branch, NULL)
      [] side = "right" ->
            Coloring(P, s, P[self.right_branch].left_branch,
                     P[self.right_branch].right_branch, NULL)
      [] side = "extra" ->
            Coloring(P, s, P[self.extra_branch].left_branch,
                     P[self.extra_branch].right_branch, NULL)

\* the coloring quartet_left, quartet_right, the root->extra case build
EdgeColoring(P, s, self, side) ==
    CASE side = "left" ->
            Coloring(P, s, P[self.left_branch].left_branch,
                     P[self.left_branch].right_branch, self.right_branch)
      [] side = "right" ->
            Coloring(P, s, P[self.right_branch].left_branch,
                     P[self.right_branch].right_branch, self.left_branch)
      [] side = "extra" ->
            Coloring(P, s, P[self.extra_branch].left_branch,
                     P[self.extra_branch].right_branch, self.left_branch)

\* The branches in the order quartet_all reaches them: left and right of
\* inner_nodes[0 .. size-3], then left, right and extra of the root.
BranchOrder(s) ==
    [k \in 1 .. 2 * (s - 2) + 3 |->
        IF k <= 2 * (s - 2)
        THEN <<(k - 1) \div 2, IF k % 2 = 1 THEN "left" ELSE "right">>
        ELSE <<s - 2, CASE k = 2 * (s - 2) + 1 -> "left"
                        [] k = 2 * (s - 2) + 2 -> "right"
                        [] OTHER -> "extra">>]

\* the place of the branch (i, side) in BranchOrder
BranchPos(s, i, side) ==
    CHOOSE k \in 1 .. 2 * (s - 2) + 3 : BranchOrder(s)[k] = <<i, side>>

RECURSIVE NextEvaluated(_, _, _, _)
\* the first place from k on whose branch is evaluated; past the end if none
NextEvaluated(P, rt, s, k) ==
    IF k > 2 * (s - 2) + 3 THEN k
    ELSE IF Evaluates(P, NodeAt(P, rt, s, BranchOrder(s)[k][1]),
                      BranchOrder(s)[k][2])
         THEN k
         ELSE NextEvaluated(P, rt, s, k + 1)

\* quartet_all from the branch (qi, qside) on, up to the next call of
\* support_fn: branches that are not evaluated are passed over unchanged;
\* after the extra branch of the root quartet_all returns to mat_nj.
QuartetEdge ==
    /\ pc = "quartet_all"
    /\ LET k == NextEvaluated(pool, root, size, BranchPos(size, qi, qside))
       IN  IF k > 2 * (size - 2) + 3
           THEN /\ pc' = "to_newick"
                /\ UNCHANGED <<qi, qside, buffer>>
           ELSE /\ qi' = BranchOrder(size)[k][1]
                /\ qside' = BranchOrder(size)[k][2]
                /\ buffer' = EdgeColoring(pool, size,
                                NodeAt(pool, root, size, BranchOrder(size)[k][1]),
                                BranchOrder(size)[k][2])
                /\ pc' = "support_call"
    /\ UNCHANGED <<size, m, support, support_fn, sample_size, local_copy, n, r,
                   min_i, min_j, min_value, unjoined_nodes, pool,
                   empty_node_ptr, root, quartets, ret>>
    /\ UNCHANGED <<seed, engine, drawn, outer>>
    /\ UNCHANGED tools

\* the value is stored in the length of the branch as well (faulty variant,
\* C20 must notice)
StoreSupportAndLength(node, side, value) ==
    CASE side = "left" ->
            [node EXCEPT !.left_support = value, !.left_dist = value[1]]
      [] side = "right" ->
            [node EXCEPT !.right_support = value, !.right_dist = value[1]]
      [] side = "extra" ->
            [node EXCEPT !.extra_support = value, !.extra_dist = value[1]]

\* self->left_support = support_fn(...), likewise right and extra
StoreSupport(node, side, value) ==
    CASE side = "left" -> [node EXCEPT !.left_support = value]
      [] side = "right" -> [node EXCEPT !.right_support = value]
      [] side = "extra" -> [node EXCEPT !.extra_support = value]

\* The assignment of the value support_fn returned to the support field of
\* the branch (qi, qside); quartet_all goes on with the branch after it.
QuartetStore ==
    /\ pc = "support_return"
    /\ IF qi < size - 2
       THEN /\ pool' = [pool EXCEPT ![size + qi] = StoreSupport(@, qside, ret)]
            /\ UNCHANGED root
       ELSE /\ root' = StoreSupport(root, qside, ret)
            /\ UNCHANGED pool
    /\ IF qside = "extra"
       THEN /\ pc' = "to_newick"
            /\ UNCHANGED <<qi, qside>>
       ELSE /\ qi' = BranchOrder(size)[BranchPos(size, qi, qside) + 1][1]
            /\ qside' = BranchOrder(size)[BranchPos(size, qi, qside) + 1][2]
            /\ pc' = "quartet_all"
    /\ UNCHANGED <<size, m, support, support_fn, sample_size, local_copy, n, r,
                   min_i, min_j, min_value, unjoined_nodes, empty_node_ptr,
                   buffer, quartets, ret>>
    /\ UNCHANGED <<seed, engine, drawn, outer>>
    /\ UNCHANGED tools

-----------------------------------------------------------------------------
(* to_newick *)

\* a / b rounded to the nearest integer, a >= 0, b > 0
RoundDiv(a, b) == (2 * a + b) \div (2 * b)

RECURSIVE Pow10(_)
Pow10(k) == IF k <= 0 THEN 1 ELSE 10 * Pow10(k - 1)

\* the sign character a printf conversion writes
SignOf(v) == IF v < 0 THEN "-" ELSE ""

\* std::to_string(double), i.e. "%f", of the length v / s: the sign and the
\* value in millionths; <<"f", sign, millionths>> stands for the characters
\* [-]d.dddddd
FormatFixed(v, s) ==
    LET a == IF v < 0 THEN -v ELSE v
    IN  <<"f", SignOf(v), (a \div s) * 1000000 + RoundDiv((a % s) * 1000000, s)>>

RECURSIVE Exponent10(_, _, _)
\* the decimal exponent e of a / s > 0: 10^e <= a / s < 10^(e+1)
Exponent10(a, s, e) ==
    IF a >= 10 * s THEN Exponent10(a, 10 * s, e + 1)
    ELSE IF a < s THEN Exponent10(10 * a, s, e - 1)
    ELSE e

\* snprintf("%1.4e") of the length v / s: sign, five significant digits and
\* the decimal exponent; <<"e", sign, digits, exponent>> stands for the
\* characters [-]d.dddde[+-]xx
FormatScientific(v, s) ==
    LET a == IF v < 0 THEN -v ELSE v
        e == Exponent10(a, s, 0)
        num == IF e < 0 THEN a * Pow10(-e) ELSE a
        den == IF e > 0 THEN s * Pow10(e) ELSE s
        digits == (num \div den) * 10000 + RoundDiv((num % den) * 10000, den)
    IN  IF a = 0 THEN <<"e", SignOf(v), 0, 0>>
        ELSE IF digits >= 100000 THEN <<"e", SignOf(v), 10000, e + 1>>
        ELSE <<"e", SignOf(v), digits, e>>

\* what the conversion (int) of a NaN may deliver (undefined behaviour): the
\* "integer indefinite" value of the x86 conversion instruction, or 0
NaNToInt == {-2147483647 - 1, 0}

\* std::to_string((int)(support * 100)); u is the result for a NaN
Percent(v, u) == IF v = NaN THEN <<"pct", u>> ELSE <<"pct", (100 * v[1]) \div v[2]>>

RECURSIVE NewickOf(_, _, _, _)
\* the characters self->traverse(&pre, &process, &post) appends for the node
\* h: a leaf writes its name; a node with children writes "(", the left
\* subtree, [support] ":" to_string(left_dist) ",", the right subtree,
\* [support] ":" %1.4e of right_dist and ")"
NewickOf(P, h, s, u) ==
    IF P[h].left_branch = NULL THEN << <<"name", P[h].index>> >>
    ELSE << <<"(">> >>
         \o NewickOf(P, P[h].left_branch, s, u)
         \o (IF P[P[h].left_branch].left_branch # NULL
             THEN << Percent(P[h].left_support, u) >> ELSE << >>)
         \o << <<":">>, FormatFixed(P[h].left_dist, s), <<",">> >>
         \o NewickOf(P, P[h].right_branch, s, u)
         \o (IF P[P[h].right_branch].right_branch # NULL
             THEN << Percent(P[h].right_support, u) >> ELSE << >>)
         \o << <<":">>, FormatScientific(P[h].right_dist, s), <<")">> >>

\* to_newick(t, m); s is the unit of the branch lengths
ToNewickString(P, rt, s, u) ==
    << <<"(">> >>
    \o NewickOf(P, rt.left_branch, s, u)
    \o (IF P[rt.left_branch].left_branch # NULL
        THEN << Percent(rt.left_support, u) >> ELSE << >>)
    \o << <<":">>, FormatFixed(rt.left_dist, s), <<",">> >>
    \o NewickOf(P, rt.right_branch, s, u)
    \o (IF P[rt.right_branch].right_branch # NULL
        THEN << Percent(rt.right_support, u) >> ELSE << >>)
    \o << <<":">>, FormatScientific(rt.right_dist, s), <<",">> >>
    \o NewickOf(P, rt.extra_branch, s, u)
    \o (IF P[rt.extra_branch].left_branch # NULL
        THEN << Percent(rt.extra_support, u) >> ELSE << >>)
    \o << <<":">>, FormatScientific(rt.extra_dist, s), <<")">>, <<";">> >>

\* whether some support value that to_newick converts is a NaN
ConvertsNaN(P, rt) ==
    \/ P[rt.left_branch].left_branch # NULL /\ rt.left_support = NaN
    \/ P[rt.right_branch].right_branch # NULL /\ rt.right_support = NaN
    \/ P[rt.extra_branch].left_branch # NULL /\ rt.extra_support = NaN
    \/ \E h \in DOMAIN P :
          /\ P[h].left_branch # NULL
          /\ \/ P[P[h].left_branch].left_branch # NULL /\ P[h].left_support = NaN
             \/ P[P[h].right_branch].right_branch # NULL /\ P[h].right_support = NaN

\* std::cout << to_newick(t, mat) << std::endl, and the loop of mat_nj goes
\* on with the next matrix.
ToNewick ==
    /\ pc = "to_newick"
    /\ \E u \in (IF ConvertsNaN(pool, root) THEN NaNToInt ELSE {0}) :
          stdout' = Append(stdout, ToNewickString(pool, root, Scale(size), u))
    /\ mat_idx' = mat_idx + 1
    /\ pc' = "next_matrix"
    /\ UNCHANGED <<size, m, support, support_fn, sample_size, local_copy, n, r,
                   min_i, min_j, min_value, unjoined_nodes, pool,
                   empty_node_ptr, root, qi, qside, buffer, quartets, ret>>
    /\ UNCHANGED <<seed, engine, drawn, argv, matrices, exit_code, run, first_run>>
    /\ UNCHANGED tools

-----------------------------------------------------------------------------
(* mat_nj *)

\* the options of mat nj with their arguments
NoSupport == [name |-> "no-support", arg |-> 0]
SampleSize(k) == [name |-> "sample-size", arg |-> k]
Seed(k) == [name |-> "seed", arg |-> k]

Options ==
    {NoSupport} \cup {SampleSize(k) : k \in 0 .. MaxSample}
                \cup {Seed(k) : k \in SeedVals}

\* the command lines of at most k options
ArgvOf(k) == UNION {[1 .. l -> Options] : l \in 0 .. k}

\* the body of the loop with a --sample-size that leaves support as it is
\* (faulty variant, C18 must notice)
OptionCaseKeepsSupport(st, o) ==
    CASE o.name = "no-support" -> [st EXCEPT !.support = FALSE]
      [] o.name = "sample-size" ->
            [st EXCEPT !.sample_size = o.arg, !.support_fn = "support_sample"]
      [] o.name = "seed" -> [st EXCEPT !.seed = o.arg]

\* the body of the getopt_long loop for one option
OptionCase(st, o) ==
    CASE o.name = "no-support" -> [st EXCEPT !.support = FALSE]
      [] o.name = "sample-size" ->
            [st EXCEPT !.sample_size = o.arg, !.support = TRUE,
                       !.support_fn = "support_sample"]
      [] o.name = "seed" -> [st EXCEPT !.seed = o.arg]

RECURSIVE GetoptLoop(_, _, _)
\* the getopt_long loop of mat_nj from the option at position k on
GetoptLoop(av, k, st) ==
    IF k > Len(av) THEN st ELSE GetoptLoop(av, k + 1, OptionCase(st, av[k]))

\* support_fn = &support_full; support = true; and the option loop
ParseOptions(av, statics) ==
    GetoptLoop(av, 1, [support |-> TRUE, support_fn |-> "support_full",
                       sample_size |-> statics.sample_size,
                       seed |-> statics.seed])

\* the statics of nj.cxx when the process starts
StaticInit == [sample_size |-> 0, seed |-> 0]

\* what the option loop can leave behind
OptionSets == {ParseOptions(av, StaticInit) : av \in ArgvOf(MaxArgs)}

\* m.get_size()
SizeOf(M) == Cardinality(DOMAIN M)

\* mat_nj up to the loop over the matrices: the options are read.
MatNjOptions ==
    /\ pc = "mat_nj"
    /\ LET st == ParseOptions(argv, [sample_size |-> sample_size, seed |-> seed])
       IN  /\ support' = st.support
           /\ support_fn' = st.support_fn
           /\ sample_size' = st.sample_size
           /\ seed' = st.seed
    /\ mat_idx' = 1
    /\ pc' = "next_matrix"
    /\ UNCHANGED <<size, m, local_copy, n, r, min_i, min_j, min_value,
                   unjoined_nodes, pool, empty_node_ptr, root, qi, qside,
                   buffer, quartets, ret>>
    /\ UNCHANGED <<engine, drawn, argv, matrices, exit_code, stdout, run, first_run>>
    /\ UNCHANGED tools

\* The loop over the matrices is through: return 0.
MatNjReturn ==
    /\ pc = "next_matrix"
    /\ mat_idx > Len(matrices)
    /\ exit_code' = 0
    /\ pc' = "exit"
    /\ UNCHANGED <<size, m, support, support_fn, sample_size, local_copy, n, r,
                   min_i, min_j, min_value, unjoined_nodes, pool,
                   empty_node_ptr, root, qi, qside, buffer, quartets, ret>>
    /\ UNCHANGED <<seed, engine, drawn, argv, matrices, mat_idx, stdout, run,
                   first_run>>
    /\ UNCHANGED tools

\* a matrix below four names ends the loop like its regular end, with 0
\* (faulty variant, C17 must notice)
MatNjTooSmallReturns ==
    /\ pc = "next_matrix"
    /\ mat_idx <= Len(matrices)
    /\ SizeOf(matrices[mat_idx]) < MinSize
    /\ exit_code' = 0
    /\ pc' = "exit"
    /\ UNCHANGED <<size, m, support, support_fn, sample_size, local_copy, n, r,
                   min_i, min_j, min_value, unjoined_nodes, pool,
                   empty_node_ptr, root, qi, qside, buffer, quartets, ret>>
    /\ UNCHANGED <<seed, engine, drawn, argv, matrices, mat_idx, stdout, run,
                   first_run>>
    /\ UNCHANGED tools

\* mat.get_size() < 4: errx(1, "expected at least four species")
MatNjTooSmall ==
    /\ pc = "next_matrix"
    /\ mat_idx <= Len(matrices)
    /\ SizeOf(matrices[mat_idx]) < MinSize
    /\ exit_code' = 1
    /\ pc' = "exit"
    /\ UNCHANGED <<size, m, support, support_fn, sample_size, local_copy, n, r,
                   min_i, min_j, min_value, unjoined_nodes, pool,
                   empty_node_ptr, root, qi, qside, buffer, quartets, ret>>
    /\ UNCHANGED <<seed, engine, drawn, argv, matrices, mat_idx, stdout, run,
                   first_run>>
    /\ UNCHANGED tools

\* the locals of nj when it enters its loop on the matrix M: leaves in the
\* first slots of the pool, the working copy of the matrix, n = matrix_size
NjLocals(M) ==
    LET s == SizeOf(M)
    IN  [size |-> s,
         local_copy |-> [i \in 0 .. s - 1 |-> [j \in 0 .. s - 1 |->
                            M[i][j] * Scale(s)]],
         n |-> s,
         r |-> [i \in 0 .. s - 1 |-> 0],
         pool |-> [h \in 0 .. 2 * s - 1 |->
                      IF h < s THEN LeafNode(h) ELSE LeafNode(0)],
         unjoined_nodes |-> [i \in 0 .. s - 1 |-> i],
         empty_node_ptr |-> s,
         root |-> EmptyRoot,
         buffer |-> [i \in 0 .. s - 1 |-> SET_D]]

\* The loop of mat_nj takes the next matrix, which has four names or more,
\* and calls nj, which runs up to its loop.
NjEnter ==
    /\ pc = "next_matrix"
    /\ mat_idx <= Len(matrices)
    /\ SizeOf(matrices[mat_idx]) >= MinSize
    /\ LET loc == NjLocals(matrices[mat_idx])
       IN  /\ m' = matrices[mat_idx]
           /\ size' = loc.size
           /\ local_copy' = loc.local_copy
           /\ n' = loc.n
           /\ r' = loc.r
           /\ pool' = loc.pool
           /\ unjoined_nodes' = loc.unjoined_nodes
           /\ empty_node_ptr' = loc.empty_node_ptr
           /\ root' = loc.root
           /\ buffer' = loc.buffer
    /\ min_i' = 0
    /\ min_j' = 0
    /\ min_value' = 0
    /\ qi' = 0
    /\ qside' = "left"
    /\ pc' = "nj_select"
    /\ UNCHANGED <<support, support_fn, sample_size, quartets, ret>>
    /\ UNCHANGED <<seed, engine, drawn, outer>>
    /\ UNCHANGED tools

\* the flags of mat format and of mat grep before the option loop
NoFlags ==
    [fix_flag |-> FALSE, validate_flag |-> FALSE, sort_flag |-> FALSE,
     truncate_names |-> FALSE, invert |-> FALSE, pattern |-> << >>]

\* no loop over the pairs has run
NoLoops == [outer |-> 0, entries |-> {}]

\* the empty matrix: matrix()
EmptyMatrix == [names |-> << >>, values |-> << >>]

\* no function on matrices and no mantel has been called
ToolsIdle ==
    /\ self_matrix = EmptyMatrix
    /\ other_matrix = EmptyMatrix
    /\ name_list = << >>
    /\ result = << >>
    /\ new_self = EmptyMatrix
    /\ new_other = EmptyMatrix
    /\ orig = 0
    /\ indices = << >>
    /\ montecarlo = << >>
    /\ flags = NoFlags
    /\ loops = NoLoops

\* the variables of the process `mat nj av files...` when it starts and
\* parse_all has returned the matrices ms; the locals of nj hold the values
\* of the first matrix
ProcessState(av, ms) ==
    LET loc == NjLocals(ms[1])
    IN  /\ argv = av
        /\ matrices = ms
        /\ mat_idx = 1
        /\ exit_code = NULL
        /\ stdout = << >>
        /\ support = TRUE
        /\ support_fn = "support_full"
        /\ sample_size = StaticInit.sample_size
        /\ seed = StaticInit.seed
        /\ engine = 0
        /\ drawn = << >>
        /\ m = ms[1]
        /\ size = loc.size
        /\ local_copy = loc.local_copy
        /\ n = loc.n
        /\ r = loc.r
        /\ pool = loc.pool
        /\ unjoined_nodes = loc.unjoined_nodes
        /\ empty_node_ptr = loc.empty_node_ptr
        /\ root = loc.root
        /\ buffer = loc.buffer
        /\ min_i = 0
        /\ min_j = 0
        /\ min_value = 0
        /\ qi = 0
        /\ qside = "left"
        /\ quartets = {}
        /\ ret = <<0, 1>>

\* the process at the first statement of mat_nj
ProcessStart(av, ms) == ProcessState(av, ms) /\ pc = "mat_nj"

\* the command lines of mat nj on one matrix: no option, --no-support,
\* --sample-size N
ArgvSet == {av \in ArgvOf(MaxArgs) : \A k \in 1 .. Len(av) : av[k].name # "seed"}

\* mat nj on one matrix of MinSize - 1 .. MaxSize names.
Init ==
    /\ \E s \in MinSize - 1 .. MaxSize :
          \E M \in InputMatrices(s), av \in ArgvSet : ProcessStart(av, << M >>)
    /\ run = 1
    /\ first_run = << >>
    /\ ToolsIdle

Next ==
    \/ MatNjOptions
    \/ MatNjReturn
    \/ MatNjTooSmall
    \/ NjEnter
    \/ NjSelect
    \/ NjJoin
    \/ NjRoot
    \/ QuartetEdge
    \/ SupportFullCall
    \/ SupportSampleEnter
    \/ SampleDraw
    \/ SampleFinish
    \/ QuartetStore
    \/ ToNewick

Spec == Init /\ [][Next]_vars

-----------------------------------------------------------------------------
(* The support functions on their own *)

\* the symmetric matrix in which the leaves below k are at distance
\* `within` from each other, so are the others, and the two groups are at
\* distance `across`
SplitMatrix(s, k, within, across) ==
    [i \in 0 .. s - 1 |-> [j \in 0 .. s - 1 |->
        IF i = j THEN 0
        ELSE IF (i < k) = (j < k) THEN within ELSE across]]

\* no split (all distances equal) and the splits with at least two leaves
\* on either side
SupportMatrices(s) ==
    {SplitMatrix(s, k, v[1], v[2]) :
        k \in {0} \cup (2 .. s \div 2), v \in SplitVals}

\* A call of support_fn(distance, buffer) with any coloring of the leaves,
\* empty classes included, in exact mode and in sampled mode with the
\* static seed unset or set.
InitSupport ==
    /\ size \in MinSize .. MaxLeaves
    /\ m \in SupportMatrices(size)
    /\ buffer \in [0 .. size - 1 -> {SET_D, SET_A, SET_B, SET_C}]
    /\ \E o \in {c \in OptionSets : c.support} :
          /\ support = o.support
          /\ support_fn = o.support_fn
          /\ sample_size = o.sample_size
    /\ seed \in (IF support_fn = "support_sample"
                 THEN {StaticInit.seed} \cup SeedVals ELSE {StaticInit.seed})
    /\ engine = 0
    /\ drawn = << >>
    /\ argv = << >>
    /\ matrices = << m >>
    /\ mat_idx = 1
    /\ exit_code = NULL
    /\ stdout = << >>
    /\ run = 1
    /\ first_run = << >>
    /\ local_copy = m
    /\ n = size
    /\ r = [i \in 0 .. size - 1 |-> 0]
    /\ min_i = 0
    /\ min_j = 0
    /\ min_value = 0
    /\ pool = [h \in 0 .. 2 * size - 1 |->
                  IF h < size THEN LeafNode(h) ELSE LeafNode(0)]
    /\ unjoined_nodes = [i \in 0 .. size - 1 |-> i]
    /\ empty_node_ptr = size
    /\ root = EmptyRoot
    /\ qi = 0
    /\ qside = "left"
    /\ quartets = {}
    /\ ret = <<0, 1>>
    /\ pc = "support_call"
    /\ ToolsIdle

NextSupport ==
    \/ SupportFullCall
    \/ SupportSampleEnter
    \/ SampleDraw
    \/ SampleFinish

SpecSupport == InitSupport /\ [][NextSupport]_vars

-----------------------------------------------------------------------------
(* Two successive runs of one command line *)

\* the matrix over five names in which {0, 1} and {2, 3} are close pairs
FiveMatrix ==
    [i \in 0 .. 4 |-> [j \in 0 .. 4 |->
        IF i = j THEN 0
        ELSE IF {i, j} = {0, 1} \/ {i, j} = {2, 3} THEN 2 ELSE 4]]

\* a matrix over three names
ThreeMatrix == [i \in 0 .. 2 |-> [j \in 0 .. 2 |-> IF i = j THEN 0 ELSE 2]]

\* the matrix over A, B, C, D with d(A,B) = 2 and every other distance 4
C3Matrix ==
    [i \in 0 .. 3 |-> [j \in 0 .. 3 |->
        IF i = j THEN 0 ELSE IF {i, j} = {0, 1} THEN 2 ELSE 4]]

\* the lists of input matrices of the runs
RunsMatrices ==
    {<< ThreeMatrix >>, << C3Matrix >>, << FiveMatrix >>,
     << C3Matrix, ThreeMatrix >>, << ThreeMatrix, C3Matrix >>,
     << FiveMatrix, C3Matrix >>}

\* the command lines of the runs: every option at most once, in every order
RunsArgv ==
    {av \in ArgvOf(MaxOptions) :
        \A k, l \in 1 .. Len(av) : av[k].name = av[l].name => k = l}

\* The process has ended; the same command line is run again on the same
\* files: what the first run wrote is kept, and a new process starts.
Rerun ==
    /\ pc = "exit"
    /\ run = 1
    /\ first_run' = [stdout |-> stdout, drawn |-> drawn, exit_code |-> exit_code]
    /\ run' = 2
    /\ LET loc == NjLocals(matrices[1])
       IN  /\ m' = matrices[1]
           /\ size' = loc.size
           /\ local_copy' = loc.local_copy
           /\ n' = loc.n
           /\ r' = loc.r
           /\ pool' = loc.pool
           /\ unjoined_nodes' = loc.unjoined_nodes
           /\ empty_node_ptr' = loc.empty_node_ptr
           /\ root' = loc.root
           /\ buffer' = loc.buffer
    /\ mat_idx' = 1
    /\ exit_code' = NULL
    /\ stdout' = << >>
    /\ support' = TRUE
    /\ support_fn' = "support_full"
    /\ sample_size' = StaticInit.sample_size
    /\ seed' = StaticInit.seed
    /\ engine' = 0
    /\ drawn' = << >>
    /\ min_i' = 0
    /\ min_j' = 0
    /\ min_value' = 0
    /\ qi' = 0
    /\ qside' = "left"
    /\ quartets' = {}
    /\ ret' = <<0, 1>>
    /\ pc' = "mat_nj"
    /\ UNCHANGED <<argv, matrices>>
    /\ UNCHANGED tools

\* mat nj run twice with the same options on the same list of matrices.
InitRuns ==
    /\ \E av \in RunsArgv, ms \in RunsMatrices : ProcessStart(av, ms)
    /\ run = 1
    /\ first_run = << >>
    /\ ToolsIdle

NextRuns ==
    \/ Next
    \/ Rerun

SpecRuns == InitRuns /\ [][NextRuns]_vars

\* The process is one thread that takes its next step as long as it has one.
SpecRunsFair == SpecRuns /\ WF_vars(NextRuns)

-----------------------------------------------------------------------------
(* matrix.h: matrices with names, sample2, common_names *)

\* the names: strings as sequences of character codes ("a", "aa", "ab", "b")
NameVals == {<<1>>, <<1, 1>>, <<1, 2>>, <<2>>}

\* the elements of a sequence
Range(f) == {f[k] : k \in DOMAIN f}

\* the lists of at most k pairwise different names
NameLists(k) ==
    {ns \in UNION {[1 .. l -> NameVals] : l \in 0 .. k} :
        \A i, j \in DOMAIN ns : ns[i] = ns[j] => i = j}

\* the value vectors of an n x n matrix: all cells equal, or all different
CellValues(nn) ==
    {[k \in 1 .. nn * nn |-> c + d * k] : c \in {0, 1}, d \in {0, 1}}

\* the matrices a parser delivers: pairwise different names, n * n values
ToolMatrices ==
    UNION {{[names |-> ns, values |-> vs] : vs \in CellValues(Len(ns))} :
              ns \in NameLists(MaxNames)}

\* make_index_map(names): name -> index; the last index wins
NameMap(ns) ==
    [x \in Range(ns) |->
        (CHOOSE i \in DOMAIN ns : ns[i] = x /\ \A j \in DOMAIN ns : ns[j] = x => j <= i) - 1]

\* entry(i, j) with the two indices exchanged
\* (faulty variant, C14 must notice)
EntryAtTransposed(M, i, j) == M.values[j * Len(M.names) + i + 1]

\* entry(i, j): values[i * size + j]
EntryAt(M, i, j) == M.values[i * Len(M.names) + j + 1]

\* entry(ni, nj): entry(name_map.at(ni), name_map.at(nj))
EntryByName(M, ni, nj) == EntryAt(M, NameMap(M.names)[ni], NameMap(M.names)[nj])

\* Sample2 copying the cell at the same indices instead of the same names
\* (faulty variant, C13 must notice)
Sample2ByIndex(M, L) ==
    LET new_size == Len(L)
    IN  IF \E k \in DOMAIN L : L[k] \notin Range(M.names)
        THEN [thrown |-> TRUE, value |-> EmptyMatrix]
        ELSE [thrown |-> FALSE,
              value |-> [names |-> L,
                         values |-> [k \in 1 .. new_size * new_size |->
                            EntryAt(M, (k - 1) \div new_size, (k - 1) % new_size)]]]

\* sample2(self, first, last) for the names L = first .. last: a matrix of
\* zeros over L, in which the cell of every pair of names of L is set,
\* through the name maps, to self.entry(name1, name2); a name that self does
\* not have makes name_map.at throw std::out_of_range
Sample2(M, L) ==
    LET new_size == Len(L)
        ret_map == NameMap(L)
        Written(i) == ret_map[L[i + 1]] = i
    IN  IF \E k \in DOMAIN L : L[k] \notin Range(M.names)
        THEN [thrown |-> TRUE, value |-> EmptyMatrix]
        ELSE [thrown |-> FALSE,
              value |-> [names |-> L,
                         values |-> [k \in 1 .. new_size * new_size |->
                            LET i == (k - 1) \div new_size
                                j == (k - 1) % new_size
                            IN  IF Written(i) /\ Written(j)
                                THEN EntryByName(M, L[i + 1], L[j + 1])
                                ELSE 0]]]

\* NameLess comparing the lengths before the characters
\* (faulty variant: the order is not lexicographic, C15 must notice)
NameLessByLength(x, y) ==
    \/ Len(x) < Len(y)
    \/ /\ Len(x) = Len(y)
       /\ \E k \in 1 .. Len(x) :
             x[k] < y[k] /\ \A l \in 1 .. k - 1 : x[l] = y[l]

\* operator< of std::string: the first different character decides, a
\* proper prefix is smaller
NameLess(x, y) ==
    \/ \E k \in 1 .. Len(x) :
          /\ k <= Len(y)
          /\ x[k] < y[k]
          /\ \A l \in 1 .. k - 1 : x[l] = y[l]
    \/ /\ Len(x) < Len(y)
       /\ \A l \in 1 .. Len(x) : x[l] = y[l]

RECURSIVE InsertSorted(_, _)
\* x put into the ascending sequence s before the first element it is
\* smaller than
InsertSorted(s, x) ==
    IF s = << >> THEN << x >>
    ELSE IF NameLess(x, Head(s)) THEN << x >> \o s
    ELSE << Head(s) >> \o InsertSorted(Tail(s), x)

RECURSIVE SortNames(_)
\* std::sort(names.begin(), names.end())
SortNames(ns) ==
    IF ns = << >> THEN << >>
    ELSE InsertSorted(SortNames(Tail(ns)), Head(ns))

RECURSIVE SetIntersection(_, _, _, _)
\* std::set_intersection of two sorted ranges from the positions i and j on
SetIntersection(a, b, i, j) ==
    IF i > Len(a) \/ j > Len(b) THEN << >>
    ELSE IF NameLess(a[i], b[j]) THEN SetIntersection(a, b, i + 1, j)
    ELSE IF ~NameLess(b[j], a[i])
         THEN << a[i] >> \o SetIntersection(a, b, i + 1, j + 1)
         ELSE SetIntersection(a, b, i, j + 1)

\* common_names(self_names, other_names)
CommonNames(self_names, other_names) ==
    SetIntersection(SortNames(self_names), SortNames(other_names), 1, 1)

\* mat nj has not been started
NjIdle ==
    /\ ProcessState(<< >>, << C3Matrix >>)
    /\ run = 1
    /\ first_run = << >>

\* the call sample2(self, first, last)
Sample2Call ==
    /\ pc = "sample2_call"
    /\ result' = Sample2(self_matrix, name_list)
    /\ pc' = "sample2_return"
    /\ UNCHANGED <<size, m, support, support_fn, sample_size, local_copy, n, r,
                   min_i, min_j, min_value, unjoined_nodes, pool,
                   empty_node_ptr, root, qi, qside, buffer, quartets, ret>>
    /\ UNCHANGED <<seed, engine, drawn, outer>>
    /\ UNCHANGED <<self_matrix, other_matrix, name_list, new_self, new_other,
                   orig, indices, montecarlo>>
    /\ UNCHANGED <<flags, loops>>

\* the call common_names(self.get_names(), other.get_names())
CommonNamesCall ==
    /\ pc = "common_names_call"
    /\ result' = CommonNames(self_matrix.names, other_matrix.names)
    /\ pc' = "common_names_return"
    /\ UNCHANGED <<size, m, support, support_fn, sample_size, local_copy, n, r,
                   min_i, min_j, min_value, unjoined_nodes, pool,
                   empty_node_ptr, root, qi, qside, buffer, quartets, ret>>
    /\ UNCHANGED <<seed, engine, drawn, outer>>
    /\ UNCHANGED <<self_matrix, other_matrix, name_list, new_self, new_other,
                   orig, indices, montecarlo>>
    /\ UNCHANGED <<flags, loops>>

\* A call of sample2 with a matrix and a list of names, or of common_names
\* with the names of two matrices.
InitNames ==
    /\ NjIdle
    /\ self_matrix \in ToolMatrices
    /\ \/ /\ pc = "sample2_call"
          /\ name_list \in NameLists(MaxNames)
          /\ other_matrix = EmptyMatrix
       \/ /\ pc = "common_names_call"
          /\ name_list = << >>
          /\ other_matrix \in ToolMatrices
    /\ result = << >>
    /\ new_self = EmptyMatrix
    /\ new_other = EmptyMatrix
    /\ orig = 0
    /\ indices = << >>
    /\ montecarlo = << >>
    /\ flags = NoFlags
    /\ loops = NoLoops

NextNames ==
    \/ Sample2Call
    \/ CommonNamesCall

SpecNames == InitNames /\ [][NextNames]_vars

-----------------------------------------------------------------------------
(* mantel.cxx: mantel without --normalize *)

\* the sum of the first k elements of a sequence of numbers
RECURSIVE SumSeq(_, _)
SumSeq(s, k) == IF k = 0 THEN 0 ELSE SumSeq(s, k - 1) + s[k]

\* size_t: the model keeps 12 of its bits
SizeModulus == 4096

\* the value of an expression of type size_t
Wrap(x) == x % SizeModulus

\* the number of times the body of the outer loop runs:
\* for (size_t i = 0; i < size - 1; i++), size - 1 computed in size_t
OuterIterations(s) == Wrap(s - 1)

\* the index pairs whose entries the body of the inner loop reads:
\* for (size_t j = i + 1; j < size; j++)
LoopEntries(s) ==
    UNION {{<<i, j>> : j \in i + 1 .. s - 1} : i \in 0 .. OuterIterations(s) - 1}

\* one run of the two nested loops of rmsd, Z and mantel over s names
Loops(s) == [outer |-> OuterIterations(s), entries |-> LoopEntries(s)]

\* the pairs (i, j), i < j < k, in the order of the two nested loops
LoopPairs(k) ==
    LET all == [p \in 1 .. k * k |-> <<(p - 1) \div k, (p - 1) % k>>]
    IN  SelectSeq(all, LAMBDA q : q[1] < q[2])

\* dist of rmsd(self, other): the sum of the squares of d1 - d2 over the
\* pairs of names of self, both entries looked up by name.  rmsd returns
\* sqrt(dist / count); count is the same positive number in all statistics
\* mantel compares, so the model compares the sums.
RmsdDist(A, B) ==
    LET pairs == LoopPairs(Len(A.names))
        terms == [p \in DOMAIN pairs |->
                    LET d1 == EntryByName(A, A.names[pairs[p][1] + 1],
                                             A.names[pairs[p][2] + 1])
                        d2 == EntryByName(B, A.names[pairs[p][1] + 1],
                                             A.names[pairs[p][2] + 1])
                    IN  (d1 - d2) * (d1 - d2)]
    IN  SumSeq(terms, Len(terms))

\* dist of one trial: d1 = new_self.entry(i, j) and
\* d2 = new_other.entry(indices[i], indices[j]) over the pairs i < j
TrialDist(A, B, ind) ==
    LET pairs == LoopPairs(Len(A.names))
        terms == [p \in DOMAIN pairs |->
                    LET d1 == EntryAt(A, pairs[p][1], pairs[p][2])
                        d2 == EntryAt(B, ind[pairs[p][1] + 1], ind[pairs[p][2] + 1])
                    IN  (d1 - d2) * (d1 - d2)]
    IN  SumSeq(terms, Len(terms))

\* std::iota(begin(indices), end(indices), 0)
Iota(k) == [i \in 1 .. k |-> i - 1]

\* the arrangements std::shuffle can leave in the vector
Shuffles(ind) ==
    {p \in [DOMAIN ind -> Range(ind)] : \A x \in Range(ind) :
        Cardinality({i \in DOMAIN p : p[i] = x}) =
        Cardinality({i \in DOMAIN ind : ind[i] = x})}

RECURSIVE InsertNumber(_, _)
InsertNumber(s, x) ==
    IF s = << >> THEN << x >>
    ELSE IF x < Head(s) THEN << x >> \o s
    ELSE << Head(s) >> \o InsertNumber(Tail(s), x)

RECURSIVE SortNumbers(_)
\* std::sort(begin(montecarlo), end(montecarlo))
SortNumbers(s) ==
    IF s = << >> THEN << >> ELSE InsertNumber(SortNumbers(Tail(s)), Head(s))

\* std::upper_bound: the first position whose element is greater than x
\* (faulty variant: trials equal to the observed value are not counted,
\* C16 must notice)
UpperBound(s, x) ==
    IF \E k \in DOMAIN s : x < s[k]
    THEN CHOOSE k \in DOMAIN s : x < s[k] /\ \A l \in 1 .. k - 1 : ~(x < s[l])
    ELSE Len(s) + 1

\* std::lower_bound(begin, end, x): the first position whose element is
\* not less than x, the end if there is none
LowerBound(s, x) ==
    IF \E k \in DOMAIN s : ~(s[k] < x)
    THEN CHOOSE k \in DOMAIN s : ~(s[k] < x) /\ \A l \in 1 .. k - 1 : s[l] < x
    ELSE Len(s) + 1

\* mantel up to the loop of the trials: common names, the two projections,
\* the observed statistic, the index vector 0 .. size - 1.
MantelEnter ==
    /\ pc = "mantel_call"
    /\ LET new_names == CommonNames(self_matrix.names, other_matrix.names)
           ps == Sample2(self_matrix, new_names).value
           po == Sample2(other_matrix, new_names).value
       IN  /\ new_self' = ps
           /\ new_other' = po
           /\ orig' = RmsdDist(ps, po)
           /\ indices' = Iota(Len(new_names))
    /\ montecarlo' = << >>
    /\ pc' = "mantel_trials"
    /\ UNCHANGED njvars_but_pc
    /\ UNCHANGED <<self_matrix, other_matrix, name_list, result>>
    /\ UNCHANGED flags
    /\ loops' = Loops(Len(CommonNames(self_matrix.names, other_matrix.names)))

\* One trial: shuffle the index vector, compute the statistic, push_back.
MantelTrial ==
    /\ pc = "mantel_trials"
    /\ Len(montecarlo) < MaxRuns
    /\ \E p \in Shuffles(indices) :
          /\ indices' = p
          /\ montecarlo' = Append(montecarlo, TrialDist(new_self, new_other, p))
    /\ UNCHANGED pc
    /\ UNCHANGED njvars_but_pc
    /\ UNCHANGED <<self_matrix, other_matrix, name_list, result, new_self,
                   new_other, orig>>
    /\ UNCHANGED flags
    /\ loops' = Loops(Len(indices))

\* After the trials: sort, lower_bound, and the returned fraction
\* (end - it) / montecarlo.size() as <<numerator, denominator>>.
MantelReturn ==
    /\ pc = "mantel_trials"
    /\ ~(Len(montecarlo) < MaxRuns)
    /\ LET sorted == SortNumbers(montecarlo)
           it == LowerBound(sorted, orig)
       IN  /\ montecarlo' = sorted
           /\ result' = <<Len(sorted) + 1 - it, Len(sorted)>>
    /\ pc' = "mantel_return"
    /\ UNCHANGED njvars_but_pc
    /\ UNCHANGED <<self_matrix, other_matrix, name_list, new_self, new_other,
                   orig, indices>>
    /\ UNCHANGED <<flags, loops>>

\* the matrices handed to mantel: two or more names, cells all different
MantelMatrices ==
    {M \in ToolMatrices : Len(M.names) >= 2 /\ M.values[1] # M.values[2]}

\* A call mantel(self, other, false) with two matrices that have two or
\* more names in common.
InitMantel ==
    /\ NjIdle
    /\ pc = "mantel_call"
    /\ self_matrix \in MantelMatrices
    /\ other_matrix \in MantelMatrices
    /\ Cardinality(Range(self_matrix.names) \cap Range(other_matrix.names)) >= 2
    /\ name_list = << >>
    /\ result = << >>
    /\ new_self = EmptyMatrix
    /\ new_other = EmptyMatrix
    /\ orig = 0
    /\ indices = << >>
    /\ montecarlo = << >>
    /\ flags = NoFlags
    /\ loops = NoLoops

\* A call mantel(self, other, false) with any two parsed matrices: the
\* two need not have a name in common.
InitMantelAny ==
    /\ NjIdle
    /\ pc = "mantel_call"
    /\ self_matrix \in ToolMatrices
    /\ other_matrix \in ToolMatrices
    /\ name_list = << >>
    /\ result = << >>
    /\ new_self = EmptyMatrix
    /\ new_other = EmptyMatrix
    /\ orig = 0
    /\ indices = << >>
    /\ montecarlo = << >>
    /\ flags = NoFlags
    /\ loops = NoLoops

NextMantel ==
    \/ MantelEnter
    \/ MantelTrial
    \/ MantelReturn

SpecMantel == InitMantel /\ [][NextMantel]_vars

SpecMantelAny == InitMantelAny /\ [][NextMantel]_vars

-----------------------------------------------------------------------------
(* mat-format.cxx: fix, validate and the loop of mat_format *)

\* The cells of the matrices of mat format are doubles that the parser read
\* with std::stod: integers of the model, and the NaN, which std::stod
\* parses too.  FNaN stands for the NaN; it is not a number of the model.
FNaN == 1000000

\* std::isnan
IsNaN(x) == x = FNaN

\* a < b and a <= b on doubles: false when an operand is the NaN
FLess(a, b) == ~IsNaN(a) /\ ~IsNaN(b) /\ a < b
FLessEq(a, b) == ~IsNaN(a) /\ ~IsNaN(b) /\ a <= b

\* a + b and (a + b) / 2.0 on doubles; the cells of the model are such that
\* the half is a number of the model
FAdd(a, b) == IF IsNaN(a) \/ IsNaN(b) THEN FNaN ELSE a + b
FAvg(a, b) == IF IsNaN(a) \/ IsNaN(b) THEN FNaN ELSE (a + b) \div 2

\* close_enough on doubles: both comparisons are false for a NaN
FCloseEnough(a, b) == ~IsNaN(a) /\ ~IsNaN(b) /\ close_enough(a, b)

\* the matrix M with the cell (i, j) taken from f[i, j]
WithCells(M, f) ==
    LET s == Len(M.names)
    IN  [names |-> M.names,
         values |-> [k \in 1 .. s * s |-> f[(k - 1) \div s, (k - 1) % s]]]

\* fix, first loop: negative entries become 0
FixPositivity(M) ==
    LET s == Len(M.names)
    IN  WithCells(M, [i \in 0 .. s - 1, j \in 0 .. s - 1 |->
            IF FLess(EntryAt(M, i, j), 0) THEN 0 ELSE EntryAt(M, i, j)])

\* fix, second loop: entries of the main diagonal that are != 0 become 0
FixDiagonal(M) ==
    LET s == Len(M.names)
    IN  WithCells(M, [i \in 0 .. s - 1, j \in 0 .. s - 1 |->
            IF i = j /\ EntryAt(M, i, i) # 0 THEN 0 ELSE EntryAt(M, i, j)])

\* the third loop averages every pair, close or not (faulty variant: cells
\* that were close enough are changed, C27 must notice)
FixSymmetryAlways(M) ==
    LET s == Len(M.names)
    IN  WithCells(M, [i \in 0 .. s - 1, j \in 0 .. s - 1 |->
            IF i = j THEN EntryAt(M, i, j)
            ELSE FAvg(EntryAt(M, i, j), EntryAt(M, j, i))])

\* fix, third loop: for j < i the cells (i, j) and (j, i) are averaged
\* unless close_enough(entry(i, j), entry(j, i)); no pair is read by the
\* step of another pair
FixSymmetry(M) ==
    LET s == Len(M.names)
        lo(i, j) == IF j < i THEN EntryAt(M, i, j) ELSE EntryAt(M, j, i)
        hi(i, j) == IF j < i THEN EntryAt(M, j, i) ELSE EntryAt(M, i, j)
    IN  WithCells(M, [i \in 0 .. s - 1, j \in 0 .. s - 1 |->
            IF i # j /\ ~FCloseEnough(lo(i, j), hi(i, j))
            THEN FAvg(lo(i, j), hi(i, j))
            ELSE EntryAt(M, i, j)])

\* fix(original)
Fix(M) == FixSymmetry(FixDiagonal(FixPositivity(M)))

\* the number of characters validate compares with --truncate-names
TruncateLen == 10

\* a.compare(0, 10, b, 0, 10) == 0
TruncatedEqual(a, b) ==
    LET cut(x) == SubSeq(x, 1, IF Len(x) < TruncateLen THEN Len(x) ELSE TruncateLen)
    IN  cut(a) = cut(b)

\* the lambda equal of validate
NamesEqual(a, b, truncate_names) ==
    IF truncate_names THEN TruncatedEqual(a, b) ELSE a = b

\* validate: some name of the sorted copy equals its successor
NameTwice(M, truncate_names) ==
    LET names_copy == SortNames(M.names)
    IN  \E i \in 1 .. Len(names_copy) - 1 :
            NamesEqual(names_copy[i], names_copy[i + 1], truncate_names)

\* validate: an entry (i, j), j < i, that is close_enough to 0 or a NaN
ZeroOrNaNBelowDiagonal(M) ==
    \E i \in 0 .. Len(M.names) - 1 : \E j \in 0 .. i - 1 :
        \/ FCloseEnough(EntryAt(M, i, j), 0)
        \/ IsNaN(EntryAt(M, i, j))

\* the test of the triangle inequality made for every pair of names, with
\* every third name (a variant that tests all three sides of a triple)
TriangleViolatedAllSides(M) ==
    \E i, j, k \in 0 .. Len(M.names) - 1 :
        /\ i # j /\ i # k /\ j # k
        /\ FLess(FAdd(EntryAt(M, i, k), EntryAt(M, j, k)), EntryAt(M, i, j))
        /\ ~FCloseEnough(EntryAt(M, i, j),
                         FAdd(EntryAt(M, i, k), EntryAt(M, j, k)))

\* validate: for k < j < i, entry(i, j) > entry(i, k) + entry(j, k) and the
\* two are not close_enough
TriangleViolated(M) ==
    \E i \in 0 .. Len(M.names) - 1 : \E j \in 0 .. i - 1 : \E k \in 0 .. j - 1 :
        /\ FLess(FAdd(EntryAt(M, i, k), EntryAt(M, j, k)), EntryAt(M, i, j))
        /\ ~FCloseEnough(EntryAt(M, i, j),
                         FAdd(EntryAt(M, i, k), EntryAt(M, j, k)))

\* validate(original, truncate_names): errx(1, ...) at the first finding,
\* else the matrix is returned as it is
Validate(M, truncate_names) ==
    IF \/ NameTwice(M, truncate_names)
       \/ ZeroOrNaNBelowDiagonal(M)
       \/ TriangleViolated(M)
    THEN [errx |-> TRUE, value |-> M]
    ELSE [errx |-> FALSE, value |-> M]

\* sort(self): sample2 with the sorted names
SortMatrix(M) == Sample2(M, SortNames(M.names)).value

\* the options of mat format that set a flag of the loop over the matrices
FormatOptions == {"fix", "validate", "sort", "truncate-names"}

\* the option loop of mat_format on the set of options given: --validate
\* sets validate_flag and fix_flag
FormatFlags(opts) ==
    [NoFlags EXCEPT !.fix_flag = "fix" \in opts \/ "validate" \in opts,
                    !.validate_flag = "validate" \in opts,
                    !.sort_flag = "sort" \in opts,
                    !.truncate_names = "truncate-names" \in opts]

\* mat_format up to the loop over the matrices
MatFormatOptions ==
    /\ pc = "mat_format"
    /\ \E opts \in SUBSET FormatOptions : flags' = FormatFlags(opts)
    /\ UNCHANGED loops
    /\ pc' = "format_fix"
    /\ UNCHANGED njvars_but_pc
    /\ UNCHANGED <<self_matrix, other_matrix, name_list, result, new_self,
                   new_other, orig, indices, montecarlo>>

\* if (fix_flag) m = fix(m)
MatFormatFix ==
    /\ pc = "format_fix"
    /\ self_matrix' = IF flags.fix_flag THEN Fix(self_matrix) ELSE self_matrix
    /\ pc' = "format_validate"
    /\ UNCHANGED njvars_but_pc
    /\ UNCHANGED <<other_matrix, name_list, result, new_self, new_other, orig,
                   indices, montecarlo, flags, loops>>

\* if (validate_flag) m = validate(m, truncate_names); errx ends the process
\* with status 1
MatFormatValidate ==
    /\ pc = "format_validate"
    /\ LET v == Validate(self_matrix, flags.truncate_names)
       IN  IF flags.validate_flag /\ v.errx
           THEN /\ result' = [exit_code |-> 1]
                /\ pc' = "format_exit"
                /\ UNCHANGED self_matrix
           ELSE /\ self_matrix' = IF flags.validate_flag THEN v.value
                                  ELSE self_matrix
                /\ pc' = "format_sort"
                /\ UNCHANGED result
    /\ UNCHANGED njvars_but_pc
    /\ UNCHANGED <<other_matrix, name_list, new_self, new_other, orig,
                   indices, montecarlo, flags, loops>>

\* if (sort_flag) m = sort(m)
MatFormatSort ==
    /\ pc = "format_sort"
    /\ self_matrix' = IF flags.sort_flag THEN SortMatrix(self_matrix)
                      ELSE self_matrix
    /\ pc' = "format_print"
    /\ UNCHANGED njvars_but_pc
    /\ UNCHANGED <<other_matrix, name_list, result, new_self, new_other, orig,
                   indices, montecarlo, flags, loops>>

\* The matrix is written; the loop is through and mat_format returns 0.
MatFormatPrint ==
    /\ pc = "format_print"
    /\ result' = [exit_code |-> 0, printed |-> self_matrix]
    /\ pc' = "format_exit"
    /\ UNCHANGED njvars_but_pc
    /\ UNCHANGED <<self_matrix, other_matrix, name_list, new_self, new_other,
                   orig, indices, montecarlo, flags, loops>>

\* two names that differ in their eleventh character only
LongNameA == <<1, 1, 1, 1, 1, 1, 1, 1, 1, 1, 1>>
LongNameB == <<1, 1, 1, 1, 1, 1, 1, 1, 1, 1, 2>>

\* the k-th of the short names 1, 2, 12, 122, ...
ShortName(k) ==
    IF k <= 2 THEN <<k>> ELSE [i \in 1 .. k - 1 |-> IF i = 1 THEN 1 ELSE 2]

\* the name lists of the matrices of mat format, of s names: pairwise
\* different names, a name that appears twice, two names that are equal
\* when truncated
FormatNames(s) ==
    {[k \in 1 .. s |-> ShortName(k)]}
    \cup (IF s < 2 THEN {}
          ELSE {[k \in 1 .. s |->
                    IF k = s \/ k = s - 2 THEN <<2>>
                    ELSE IF k = s - 1 THEN <<1>> ELSE ShortName(k + 3)],
                [k \in 1 .. s |->
                    IF k = 1 THEN LongNameB
                    ELSE IF k = s THEN LongNameA ELSE ShortName(k - 1)]})

\* the cells (i, j) and (j, i), j < i, of the matrices of mat format
PairVals ==
    {<<2, 2>>, <<20, 20>>, <<0, 0>>, <<2, 0>>, <<0, 2>>, <<-2, 2>>, <<2, -2>>,
     <<1000, 952>>, <<2, 20>>, <<FNaN, 2>>, <<2, FNaN>>}

\* the matrices of mat format of s names
FormatMatricesOf(s) ==
    LET below == {<<i, j>> \in (0 .. s - 1) \X (0 .. s - 1) : j < i}
    IN  {[names |-> ns,
          values |-> [k \in 1 .. s * s |->
                        LET i == (k - 1) \div s
                            j == (k - 1) % s
                        IN  IF i = j THEN dg
                            ELSE IF j < i THEN pv[<<i, j>>][1]
                            ELSE pv[<<j, i>>][2]]] :
            ns \in FormatNames(s), dg \in {0, 2}, pv \in [below -> PairVals]}

FormatMatrices == UNION {FormatMatricesOf(s) : s \in 1 .. MaxNames}

\* mat format with some options on one matrix; other_matrix keeps the
\* matrix as it was parsed.
InitFormat ==
    /\ NjIdle
    /\ pc = "mat_format"
    /\ self_matrix \in FormatMatrices
    /\ other_matrix = self_matrix
    /\ name_list = << >>
    /\ result = << >>
    /\ new_self = EmptyMatrix
    /\ new_other = EmptyMatrix
    /\ orig = 0
    /\ indices = << >>
    /\ montecarlo = << >>
    /\ flags = NoFlags
    /\ loops = NoLoops

NextFormat ==
    \/ MatFormatOptions
    \/ MatFormatFix
    \/ MatFormatValidate
    \/ MatFormatSort
    \/ MatFormatPrint

SpecFormat == InitFormat /\ [][NextFormat]_vars

-----------------------------------------------------------------------------
(* mat-grep.cxx: grep and mat_grep *)

\* A pattern is a sequence of tokens: a character code matches itself,
\* AnyChar is '.', LineStart is '^' and LineEnd is '$'.
AnyChar == 0
LineStart == -1
LineEnd == -2

\* std::regex_search(name, rpattern) for the patterns of the model: some
\* substring of the name matches the body of the pattern, at the start of
\* the name after '^', up to its end before '$'
RegexSearch(name, pat) ==
    LET atStart == pat # << >> /\ pat[1] = LineStart
        atEnd == pat # << >> /\ pat[Len(pat)] = LineEnd
        body == SelectSeq(pat, LAMBDA t : t # LineStart /\ t # LineEnd)
    IN  \E i \in 1 .. Len(name) + 1 :
            /\ i + Len(body) - 1 <= Len(name)
            /\ atStart => i = 1
            /\ atEnd => i + Len(body) - 1 = Len(name)
            /\ \A k \in 1 .. Len(body) :
                  body[k] = AnyChar \/ body[k] = name[i + k - 1]

\* a != b on bool, the operator ^ of the lambda
Xor(a, b) == a # b

\* sample(self, first, last) over a range of indices: the matrix of the
\* names at these indices, in this order, with the cells of self
SampleByIndex(M, idx) ==
    [names |-> [k \in 1 .. Len(idx) |-> M.names[idx[k] + 1]],
     values |-> [k \in 1 .. Len(idx) * Len(idx) |->
                    EntryAt(M, idx[((k - 1) \div Len(idx)) + 1],
                               idx[((k - 1) % Len(idx)) + 1])]]

\* grep without its third parameter: the names that match are kept
\* (faulty variant, C22 must notice)
GrepIgnoresInvert(M, rpattern, invert) ==
    LET indices0 == Iota(Len(M.names))
        removed(index) == ~RegexSearch(M.names[index + 1], rpattern)
        kept == SelectSeq(indices0, LAMBDA index : ~removed(index))
    IN  SampleByIndex(M, kept)

\* grep(self, rpattern, invert): std::iota, std::remove_if with the lambda
\* !regex_search(old_names[index], rpattern) ^ invert, which keeps the
\* other indices in their order, and sample on the range before split
Grep(M, rpattern, invert) ==
    LET indices0 == Iota(Len(M.names))
        removed(index) ==
            Xor(~RegexSearch(M.names[index + 1], rpattern), invert)
        kept == SelectSeq(indices0, LAMBDA index : ~removed(index))
    IN  SampleByIndex(M, kept)

\* the patterns of the model
GrepPatterns ==
    {<< >>, <<1>>, <<2>>, <<LineStart, 1>>, <<1, LineEnd>>,
     <<LineStart, 2, LineEnd>>, <<AnyChar, AnyChar>>, <<1, 2>>}

\* mat_grep up to the loop over the matrices: -v sets invert, the first
\* argument after the options is the pattern
MatGrepOptions ==
    /\ pc = "mat_grep"
    /\ \E v \in BOOLEAN, p \in GrepPatterns :
          flags' = [NoFlags EXCEPT !.invert = v, !.pattern = p]
    /\ pc' = "grep_call"
    /\ UNCHANGED njvars_but_pc
    /\ UNCHANGED <<self_matrix, other_matrix, name_list, result, new_self,
                   new_other, orig, indices, montecarlo, loops>>

\* std::cout << grep(mat, rpattern, invert).to_string()
GrepCall ==
    /\ pc = "grep_call"
    /\ result' = Grep(self_matrix, flags.pattern, flags.invert)
    /\ pc' = "grep_return"
    /\ UNCHANGED njvars_but_pc
    /\ UNCHANGED <<self_matrix, other_matrix, name_list, new_self, new_other,
                   orig, indices, montecarlo, flags, loops>>

\* mat grep with a pattern, with or without -v, on one matrix.
InitGrep ==
    /\ NjIdle
    /\ pc = "mat_grep"
    /\ self_matrix \in ToolMatrices
    /\ other_matrix = EmptyMatrix
    /\ name_list = << >>
    /\ result = << >>
    /\ new_self = EmptyMatrix
    /\ new_other = EmptyMatrix
    /\ orig = 0
    /\ indices = << >>
    /\ montecarlo = << >>
    /\ flags = NoFlags
    /\ loops = NoLoops

NextGrep ==
    \/ MatGrepOptions
    \/ GrepCall

SpecGrep == InitGrep /\ [][NextGrep]_vars

-----------------------------------------------------------------------------
(* Claims about nj *)

\* nj has returned its tree
TreeBuilt ==
    pc \in {"quartet_all", "support_call", "sampling", "support_return",
            "to_newick"}


RECURSIVE Paths(_, _, _)
\* the number of downward paths from the node h to the node t
Paths(P, h, t) ==
    IF h = NULL THEN 0
    ELSE IF h = t THEN 1
    ELSE Paths(P, P[h].left_branch, t) + Paths(P, P[h].right_branch, t)

\* the number of paths from the root to the node t
RootPaths(t) ==
    Paths(pool, root.left_branch, t) + Paths(pool, root.right_branch, t) +
    Paths(pool, root.extra_branch, t)

\* the number of branches of the tree (root included) that point to t
Parents(t) ==
    Cardinality({h \in DOMAIN pool : pool[h].left_branch = t}) +
    Cardinality({h \in DOMAIN pool : pool[h].right_branch = t}) +
    (IF root.left_branch = t THEN 1 ELSE 0) +
    (IF root.right_branch = t THEN 1 ELSE 0) +
    (IF root.extra_branch = t THEN 1 ELSE 0)

\* C1: the tree nj returns for a matrix of size n >= 4 has the n leaves
\* 0..n-1 in the first n pool slots, n-3 internal nodes with two children in
\* the next n-3 slots and a root with three children; every leaf and every
\* internal node is reached from the root along exactly one path and has
\* exactly one parent; the remaining pool slots are not part of the tree.
C1_TreeShape ==
    TreeBuilt =>
        /\ size >= MinSize
        /\ root.left_branch # NULL
        /\ root.right_branch # NULL
        /\ root.extra_branch # NULL
        /\ empty_node_ptr = 2 * size - 3
        /\ \A h \in 0 .. size - 1 :
              /\ pool[h].left_branch = NULL
              /\ pool[h].right_branch = NULL
              /\ pool[h].index = h
              /\ RootPaths(h) = 1
              /\ Parents(h) = 1
        /\ \A h \in size .. 2 * size - 4 :
              /\ pool[h].left_branch # NULL
              /\ pool[h].right_branch # NULL
              /\ RootPaths(h) = 1
              /\ Parents(h) = 1
        /\ \A h \in 2 * size - 3 .. 2 * size - 1 :
              /\ pool[h].left_branch = NULL
              /\ pool[h].right_branch = NULL
              /\ RootPaths(h) = 0
        /\ Cardinality({h \in DOMAIN pool :
              RootPaths(h) >= 1 /\ pool[h].left_branch = NULL}) = size
        /\ Cardinality({h \in DOMAIN pool :
              RootPaths(h) >= 1 /\ pool[h].left_branch # NULL}) = size - 3

\* a tree built by two joins in which the second join has the first as child
C1_Witness ==
    /\ TreeBuilt
    /\ size > MinSize
    /\ \E h \in size .. 2 * size - 4 :
          pool[h].left_branch >= size \/ pool[h].right_branch >= size

OrderedPairs(k) == {p \in (0 .. k - 1) \X (0 .. k - 1) : p[1] # p[2]}

\* scan order: i ascending, then j ascending
LexLess(p, q) == p[1] < q[1] \/ (p[1] = q[1] /\ p[2] < q[2])

\* the pairs of D at which Q[i][j] = M[i][j] - r[i] - r[j] is minimal
Minimisers(M, rr, D) ==
    {p \in D : \A q \in D :
        M[p[1]][p[2]] - rr[p[1]] - rr[p[2]] <= M[q[1]][q[2]] - rr[q[1]] - rr[q[2]]}

\* the earliest pair of S in scan order
LexFirst(S) == CHOOSE p \in S : \A q \in S : p = q \/ LexLess(p, q)

\* C2 as claimed: in every join iteration the selected pair (min_i, min_j)
\* is the earliest pair in scan order among the pairs i < j that minimise
\* Q[i][j] over the active matrix, also for matrices that are not symmetric.
C2_EarliestUpperPair ==
    pc = "nj_join" =>
        <<min_i, min_j>> = LexFirst(Minimisers(local_copy, r, UpperPairs(n)))

\* C2 amended: the selected pair is the first ordered pair (i, j), i # j, in
\* scan order that attains the minimum of Q over ALL ordered pairs of the
\* active matrix, put in ascending order; when the active matrix is
\* symmetric it is the earliest pair i < j that minimises Q.
C2_EarliestOrderedPair ==
    pc = "nj_join" =>
        LET first == LexFirst(Minimisers(local_copy, r, OrderedPairs(n)))
        IN  /\ min_i < min_j
            /\ {min_i, min_j} = {first[1], first[2]}
            /\ min_value = local_copy[first[1]][first[2]] - r[first[1]] - r[first[2]]
            /\ IsSymmetric(local_copy, n) =>
                  <<min_i, min_j>> =
                      LexFirst(Minimisers(local_copy, r, UpperPairs(n)))

\* a selection on a matrix that is not symmetric: the minimum of Q over all
\* ordered pairs is attained below the diagonal first, the pair is swapped,
\* and it is not the earliest minimising pair above the diagonal
C2_Witness ==
    /\ pc = "nj_join"
    /\ ~IsSymmetric(local_copy, n)
    /\ LET first == LexFirst(Minimisers(local_copy, r, OrderedPairs(n)))
       IN  /\ first[1] > first[2]
           /\ <<min_i, min_j>> = <<first[2], first[1]>>
           /\ <<min_i, min_j>> #
                  LexFirst(Minimisers(local_copy, r, UpperPairs(n)))

\* the length of the branch of the root that leads to the node h
RootLengthTo(h) ==
    IF root.left_branch = h THEN root.left_dist
    ELSE IF root.right_branch = h THEN root.right_dist
    ELSE root.extra_dist

\* C3: on the matrix over A, B, C, D with d(A,B) = 2 and all other
\* distances 4, nj computes r_A = r_B = 5 and r_C = r_D = 6, selects (A, B)
\* with Q = -8, tied with (C, D), joins A and B with lengths 1 and 1, and the
\* root joins the AB node, C and D with lengths 1, 2 and 2.
C3_Scenario ==
    m = C3Matrix =>
        LET u == Scale(size)
        IN  /\ pc = "nj_join" =>
                  /\ r = [i \in 0 .. 3 |-> IF i < 2 THEN 5 * u ELSE 6 * u]
                  /\ min_i = 0
                  /\ min_j = 1
                  /\ min_value = (-8) * u
                  /\ local_copy[2][3] - r[2] - r[3] = (-8) * u
            /\ n = 3 =>
                  /\ pool[4].left_branch = 0
                  /\ pool[4].right_branch = 1
                  /\ pool[4].left_dist = 1 * u
                  /\ pool[4].right_dist = 1 * u
            /\ TreeBuilt =>
                  /\ {root.left_branch, root.right_branch, root.extra_branch}
                        = {4, 2, 3}
                  /\ RootLengthTo(4) = 1 * u
                  /\ RootLengthTo(2) = 2 * u
                  /\ RootLengthTo(3) = 2 * u

\* the tree of the scenario, built
C3_Witness == m = C3Matrix /\ TreeBuilt /\ root.left_branch = 4

\* C4: a join of (min_i, min_j) at active size n stores a node with the
\* node of slot min_i as left and the node of slot min_j as right child and
\* with the lengths (M + r_i - r_j)/2 and (M - r_i + r_j)/2, where M is the
\* entry (min_i, min_j) and r_i the sum of the n active entries of row i
\* divided by n - 2 (stated without division); no step changes the lengths
\* of a node afterwards, negative or not.
C4_JoinLengths ==
    [][ /\ pc = "nj_join" =>
              LET M == local_copy[min_i][min_j]
                  s_i == SumTo(local_copy[min_i], n)
                  s_j == SumTo(local_copy[min_j], n)
                  new == pool'[empty_node_ptr]
              IN  /\ new.left_branch = unjoined_nodes[min_i]
                  /\ new.right_branch = unjoined_nodes[min_j]
                  /\ 2 * (n - 2) * new.left_dist = (n - 2) * M + s_i - s_j
                  /\ 2 * (n - 2) * new.right_dist = (n - 2) * M - s_i + s_j
        /\ \A h \in DOMAIN pool :
              pool[h].left_branch # NULL =>
                  /\ pool'[h].left_dist = pool[h].left_dist
                  /\ pool'[h].right_dist = pool[h].right_dist
      ]_vars

\* a finished tree that holds a join with a negative left length
C4_Witness ==
    /\ pc = "to_newick"
    /\ \E h \in size .. 2 * size - 4 : pool[h].left_dist < 0

\* C5: the root nj builds has the nodes of the slots 0, 1, 2 as left, right
\* and extra child, with the lengths (Mxy + Mxz - Myz)/2, (Mxy + Myz - Mxz)/2
\* and (Mxz + Myz - Mxy)/2 of the final working matrix (x, y, z = 0, 1, 2),
\* built when exactly three nodes are active.
C5_Root ==
    TreeBuilt =>
        LET Mxy == local_copy[0][1]
            Mxz == local_copy[0][2]
            Myz == local_copy[1][2]
        IN  /\ n = 3
            /\ root.left_branch = unjoined_nodes[0]
            /\ root.right_branch = unjoined_nodes[1]
            /\ root.extra_branch = unjoined_nodes[2]
            /\ 2 * root.left_dist = Mxy + Mxz - Myz
            /\ 2 * root.right_dist = Mxy + Myz - Mxz
            /\ 2 * root.extra_dist = Mxz + Myz - Mxy

\* a root built after two joins whose three lengths differ pairwise
C5_Witness ==
    /\ TreeBuilt
    /\ size > MinSize
    /\ root.left_dist # root.right_dist
    /\ root.left_dist # root.extra_dist
    /\ root.right_dist # root.extra_dist

-----------------------------------------------------------------------------
(* Claims about the support values *)

\* a support value in [0, 1] (NaN is not)
InUnitInterval(v) == v[2] > 0 /\ 0 <= v[1] /\ v[1] <= v[2]

\* C6: after quartet_all every support value stored in the tree (left and
\* right support of every pool node, left, right and extra support of the
\* root) lies in [0, 1], in exact mode and for every sample size N >= 0.
C6_SupportInUnitInterval ==
    (pc = "to_newick" /\ support) =>
        /\ \A h \in DOMAIN pool :
              /\ InUnitInterval(pool[h].left_support)
              /\ InUnitInterval(pool[h].right_support)
        /\ InUnitInterval(root.left_support)
        /\ InUnitInterval(root.right_support)
        /\ InUnitInterval(root.extra_support)

\* the leaves of color c
ClassOf(buf, s, c) == {i \in 0 .. s - 1 : buf[i] = c}

\* the quartets (a in A, b in B, c in C, d in D) of a coloring
AllQuartets(buf, s) ==
    ClassOf(buf, s, SET_A) \X ClassOf(buf, s, SET_B) \X
    ClassOf(buf, s, SET_C) \X ClassOf(buf, s, SET_D)

\* |A| * |B| * |C| * |D|
ClassProduct(buf, s) ==
    Cardinality(ClassOf(buf, s, SET_A)) * Cardinality(ClassOf(buf, s, SET_B)) *
    Cardinality(ClassOf(buf, s, SET_C)) * Cardinality(ClassOf(buf, s, SET_D))

\* the three pairing sums of a quartet
SumAB(q) == m[q[1]][q[2]] + m[q[3]][q[4]]
SumAC(q) == m[q[1]][q[3]] + m[q[2]][q[4]]
SumAD(q) == m[q[1]][q[4]] + m[q[2]][q[3]]

\* C7: in exact mode support_full reaches quartet_counter++ once for every
\* quartet (a in A, b in B, c in C, d in D), |A|*|B|*|C|*|D| times in
\* total, and, when there are quartets, returns the fraction of the quartets
\* for which no alternative sum is strictly smaller than D_ab + D_cd; a
\* quartet whose D_ab + D_cd is strictly smaller than both alternatives is
\* among the supporting ones, one whose D_ac + D_bd is the strict minimum is
\* among the others.
C7_ExactEnumeration ==
    (pc = "support_return" /\ support_fn = "support_full") =>
        LET visits == FullVisits(buffer, size)
            all == AllQuartets(buffer, size)
            product == ClassProduct(buffer, size)
            supporting == {q \in all : SumAB(q) <= SumAC(q) /\ SumAB(q) <= SumAD(q)}
        IN  /\ Len(visits) = product
            /\ \A k \in 1 .. Len(visits) : visits[k] \in all
            /\ \A q \in all :
                  Cardinality({k \in 1 .. Len(visits) : visits[k] = q}) = 1
            /\ product > 0 =>
                  /\ ret = <<Cardinality(supporting), product>>
                  /\ ret[1] >= Cardinality({q \in all :
                        SumAB(q) < SumAC(q) /\ SumAB(q) < SumAD(q)})
                  /\ ret[2] - ret[1] >= Cardinality({q \in all :
                        SumAC(q) < SumAB(q) /\ SumAC(q) < SumAD(q)})

\* an exact support strictly between 0 and 1 over several quartets
C7_Witness ==
    /\ pc = "support_return"
    /\ support_fn = "support_full"
    /\ ClassProduct(buffer, size) >= 2
    /\ 0 < ret[1]
    /\ ret[1] < ret[2]

\* support_sample took the sampling path
SamplingPathTaken ==
    /\ support_fn = "support_sample"
    /\ ~(QuartetNumber(buffer, size) < sample_size)

\* the quartets the returned support was computed over
Evaluated ==
    IF SamplingPathTaken THEN quartets ELSE AllQuartets(buffer, size)

\* an alternative sum is smaller than D_ab + D_cd by more than the tolerance
ContradictsBeyondTolerance(q) ==
    \/ SumAC(q) < SumAB(q) /\ ~close_enough(SumAB(q), SumAC(q))
    \/ SumAD(q) < SumAB(q) /\ ~close_enough(SumAB(q), SumAD(q))

\* an alternative sum is smaller than D_ab + D_cd, but only within tolerance
NearTie(q) ==
    /\ SumAC(q) < SumAB(q) \/ SumAD(q) < SumAB(q)
    /\ ~ContradictsBeyondTolerance(q)

\* C8 as claimed: the returned support counts a quartet as non-supporting
\* only if an alternative sum is smaller than D_ab + D_cd by more than the
\* tolerance of close_enough; a near-tie leaves the quartet supporting.
C8_NearTiesSupport ==
    (pc = "support_return" /\ Evaluated # {}) =>
        ret = <<Cardinality({q \in Evaluated : ~ContradictsBeyondTolerance(q)}),
                Cardinality(Evaluated)>>

\* C8 amended: no tolerance is applied; the returned support counts a
\* quartet as non-supporting whenever an alternative sum is strictly smaller
\* than D_ab + D_cd, by any amount, so every near-tie quartet counts as
\* non-supporting, in support_full and in support_sample.
C8_StrictComparison ==
    (pc = "support_return" /\ Evaluated # {}) =>
        /\ ret[2] = Cardinality(Evaluated)
        /\ ret[2] - ret[1] = Cardinality({q \in Evaluated :
                SumAC(q) < SumAB(q) \/ SumAD(q) < SumAB(q)})
        /\ ret[2] - ret[1] >= Cardinality({q \in Evaluated : NearTie(q)})

\* a sampled support of 0 over quartets that are all near-ties
C8_Witness ==
    /\ pc = "support_return"
    /\ SamplingPathTaken
    /\ quartets # {}
    /\ \A q \in quartets : NearTie(q)
    /\ ret[1] = 0

\* some class of the coloring is empty
EmptyClass ==
    \E c \in {SET_A, SET_B, SET_C, SET_D} : ClassOf(buffer, size, c) = {}

C10_SampleExact ==
    /\ pc = "sampling" =>
          /\ SamplingPathTaken
          /\ Cardinality(quartets) <= sample_size
          /\ quartets \subseteq AllQuartets(buffer, size)
    /\ (pc = "support_return" /\ SamplingPathTaken) =>
          /\ Cardinality(quartets) = sample_size
          /\ quartets \subseteq AllQuartets(buffer, size)
          /\ ret[2] = sample_size
          /\ ret[1] = sample_size - Cardinality({q \in quartets :
                SumAC(q) < SumAB(q) \/ SumAD(q) < SumAB(q)})

\* a sample of several quartets, some supporting and some not, drawn from
\* more quartets than were asked for
C10_Witness ==
    /\ pc = "support_return"
    /\ SamplingPathTaken
    /\ sample_size >= 2
    /\ QuartetNumber(buffer, size) > sample_size
    /\ 0 < ret[1]
    /\ ret[1] < ret[2]

-----------------------------------------------------------------------------
(* Claims about the sampled mode and the command line *)

\* the sample size is at least the number of quartets, and there are some
SampleCoversAll ==
    /\ support_fn = "support_sample"
    /\ QuartetNumber(buffer, size) > 0
    /\ sample_size >= QuartetNumber(buffer, size)

SeedGiven == \E k \in 1 .. Len(argv) : argv[k].name = "seed"

\* C12: two runs of mat nj on the same matrices with the same options,
\* --seed N among them (N = 0 included), draw the same quartets in every
\* sampling loop, compute the same support values from them and end with
\* the same exit code.
C12_SeedReproducible ==
    (run = 2 /\ pc = "exit" /\ SeedGiven) =>
        /\ drawn = first_run.drawn
        /\ exit_code = first_run.exit_code

\* the exit code of mat nj on its list of matrices
ExpectedExitCode ==
    IF \E k \in DOMAIN matrices : SizeOf(matrices[k]) < 4 THEN 1 ELSE 0

QuartetAllCalled ==
    pc \in {"quartet_all", "support_call", "sampling", "support_return"}

\* C18 as stated: with --no-support anywhere on the command line
\* quartet_all is never called.
C18_NoSupportSkips ==
    NoSupport \in Range(argv) => ~QuartetAllCalled

\* --no-support is on the command line and no --sample-size follows it
NoSupportIsLast ==
    \E k \in DOMAIN argv :
        /\ argv[k] = NoSupport
        /\ \A l \in k + 1 .. Len(argv) : argv[l].name # "sample-size"

\* C18, amended: quartet_all is skipped exactly when --no-support is on the
\* command line with no --sample-size after it; a --sample-size after
\* --no-support switches the support on again.  --seed has no influence.
C18_LastOptionDecides ==
    /\ [](QuartetAllCalled => ~NoSupportIsLast)
    /\ [][(pc = "nj_select" /\ pc' \notin {"nj_select", "nj_join"}) =>
            /\ NoSupportIsLast => pc' = "to_newick"
            /\ ~NoSupportIsLast => pc' = "quartet_all"]_vars

\* --no-support after --sample-size: the tree is written without a call of
\* quartet_all
C18_Witness ==
    /\ pc = "to_newick"
    /\ NoSupportIsLast
    /\ \E k \in DOMAIN argv : argv[k].name = "sample-size"
    /\ ~support
    /\ drawn = << >>

\* every branch length of the lines written so far is in the %1.4e form
LengthsScientific ==
    \A l \in DOMAIN stdout : \A k \in DOMAIN stdout[l] :
        stdout[l][k] = <<":">> => stdout[l][k + 1][1] = "e"

\* every support percentage written so far is an integer in 0 .. 100
PercentagesInRange ==
    \A l \in DOMAIN stdout : \A k \in DOMAIN stdout[l] :
        stdout[l][k][1] = "pct" => stdout[l][k][2] \in 0 .. 100

\* no support percentage is written when no support was computed
PercentagesOnlyIfComputed ==
    ~support => \A l \in DOMAIN stdout : \A k \in DOMAIN stdout[l] :
                    stdout[l][k][1] # "pct"

\* C19: in the Newick string every branch length is written after ':' in
\* the %1.4e form, and a support percentage, an integer in 0 .. 100, is
\* written before ':' only for branches whose support was computed.
C19_NewickFormat ==
    /\ LengthsScientific
    /\ PercentagesInRange
    /\ PercentagesOnlyIfComputed

\* a node or the root without its support fields: children, lengths, index
WithoutSupport(node) ==
    [f \in DOMAIN node \ {"left_support", "right_support", "extra_support"} |->
        node[f]]

\* C20: a step of quartet_all changes only support fields: the children,
\* the branch lengths and the leaf indices of every node, the three branches
\* of the root and the distance matrix stay as they are; and the steps of
\* nj leave the matrix it was given as it is (they work on local_copy).
C20_SupportFrame ==
    /\ [][QuartetAllCalled => (/\ m' = m
                               /\ matrices' = matrices
                               /\ DOMAIN pool' = DOMAIN pool
                               /\ \A h \in DOMAIN pool :
                                     WithoutSupport(pool'[h]) =
                                         WithoutSupport(pool[h])
                               /\ WithoutSupport(root') =
                                     WithoutSupport(root))]_vars
    /\ [][(pc = "nj_select" \/ pc = "nj_join") =>
            (m' = m /\ matrices' = matrices)]_vars

\* quartet_all is through: the root and an inner node carry a support that
\* is not the initial 0, and the working copy of nj is no longer the matrix
C20_Witness ==
    /\ pc = "to_newick"
    /\ support
    /\ root.left_support # <<0, 1>> \/ root.right_support # <<0, 1>>
                                    \/ root.extra_support # <<0, 1>>
    /\ \E h \in DOMAIN pool : pool[h].left_support # <<0, 1>>
    /\ local_copy # NjLocals(m).local_copy
    /\ m = matrices[mat_idx]

-----------------------------------------------------------------------------
(* Claims about sample2 and common_names *)

\* the position (from 0) of the name x in the names of M
PositionOf(M, x) == (CHOOSE k \in DOMAIN M.names : M.names[k] = x) - 1

\* the cell of row i and column j (from 0) of a matrix in row-major order
CellOf(M, i, j) == M.values[i * Len(M.names) + j + 1]

\* C13: for a matrix m and an ordered list L of pairwise different names
\* that m all has, sample2(m, L) returns, without throwing, a matrix with
\* the names L in the given order and |L| * |L| values, in which the cell of
\* the positions of a and b in L holds the cell of m at the positions of a
\* and b in m, for all names a, b of L.
C13_ProjectByName ==
    (pc = "sample2_return" /\ Range(name_list) \subseteq Range(self_matrix.names)) =>
        /\ ~result.thrown
        /\ result.value.names = name_list
        /\ Len(result.value.values) = Len(name_list) * Len(name_list)
        /\ \A i, j \in DOMAIN name_list :
              CellOf(result.value, i - 1, j - 1) =
                  CellOf(self_matrix, PositionOf(self_matrix, name_list[i]),
                                      PositionOf(self_matrix, name_list[j]))

\* a projection onto two or more names in an order other than that of the
\* matrix, whose cells all differ
C13_Witness ==
    /\ pc = "sample2_return"
    /\ ~result.thrown
    /\ Len(name_list) >= 2
    /\ Len(name_list) < Len(self_matrix.names)
    /\ PositionOf(self_matrix, name_list[1]) > PositionOf(self_matrix, name_list[2])
    /\ self_matrix.values[1] # self_matrix.values[2]

\* C14: sample2 of a matrix and its own names in their order returns a
\* matrix with the same size, the same names and the same values.
C14_ProjectIdentity ==
    (pc = "sample2_return" /\ name_list = self_matrix.names) =>
        /\ ~result.thrown
        /\ Len(result.value.names) = Len(self_matrix.names)
        /\ result.value.names = self_matrix.names
        /\ result.value.values = self_matrix.values

\* a matrix of three names whose cells all differ, projected onto its names
C14_Witness ==
    /\ pc = "sample2_return"
    /\ name_list = self_matrix.names
    /\ Len(name_list) >= 3
    /\ self_matrix.values[1] # self_matrix.values[2]
    /\ result.value.values = self_matrix.values

\* x comes before y in the lexicographic order of strings
LexBefore(x, y) ==
    LET common == {k \in 1 .. Len(x) : k <= Len(y) /\ \A l \in 1 .. k : x[l] = y[l]}
        c == Cardinality(common)
    IN  IF c = Len(x) THEN Len(y) > c
        ELSE c < Len(y) /\ x[c + 1] < y[c + 1]

\* the orderings of the elements of a list of pairwise different names
Orderings(ns) == {p \in NameLists(Len(ns)) : Range(p) = Range(ns)}

\* C15: for two lists of pairwise different names, common_names returns the
\* names that are in both, each once, in ascending lexicographic order, not
\* more than the shorter list has, and returns the same for every order of
\* the names within the lists and for the lists exchanged.
C15_CommonNames ==
    pc = "common_names_return" =>
        LET A == self_matrix.names
            B == other_matrix.names
        IN  /\ \A k \in 1 .. Len(result) - 1 : LexBefore(result[k], result[k + 1])
            /\ Range(result) = Range(A) \cap Range(B)
            /\ Len(result) = Cardinality(Range(A) \cap Range(B))
            /\ Len(result) <= Len(A)
            /\ Len(result) <= Len(B)
            /\ \A A2 \in Orderings(A), B2 \in Orderings(B) :
                  /\ CommonNames(A2, B2) = result
                  /\ CommonNames(B2, A2) = result

\* two lists in different orders with two or more common names, one of them
\* a prefix of the other, and a name that only one list has
C15_Witness ==
    /\ pc = "common_names_return"
    /\ Len(result) >= 2
    /\ Len(result) < Len(self_matrix.names)
    /\ <<1>> \in Range(result)
    /\ <<1, 1>> \in Range(result)
    /\ self_matrix.names # SortNames(self_matrix.names)
    /\ other_matrix.names # self_matrix.names

-----------------------------------------------------------------------------
(* Claims about mantel *)

\* the unordered pairs of positions 0 .. k - 1
UnorderedPairs(k) == {S \in SUBSET (0 .. k - 1) : Cardinality(S) = 2}

RECURSIVE SumOver(_, _)
\* the sum of f over the finite set S
SumOver(S, f) ==
    IF S = {} THEN 0
    ELSE LET x == CHOOSE y \in S : TRUE IN f[x] + SumOver(S \ {x}, f)

\* the statistic over all unordered pairs of the common names with the
\* arrangement ind applied to the rows and the columns of the second matrix
PermutedStatistic(A, B, ind) ==
    LET k == Len(A.names)
        lo(S) == CHOOSE x \in S : \A y \in S : x <= y
        hi(S) == CHOOSE x \in S : \A y \in S : y <= x
        term == [S \in UnorderedPairs(k) |->
                    LET d == CellOf(A, lo(S), hi(S)) -
                             CellOf(B, ind[lo(S) + 1], ind[hi(S) + 1])
                    IN  d * d]
    IN  SumOver(UnorderedPairs(k), term)

-----------------------------------------------------------------------------
(* Claims about mat format *)

\* M is a distance matrix: pairwise different names, no entry off the main
\* diagonal that is zero or a NaN, and the triangle inequality, up to
\* close_enough, for all pairwise different i, j, k
IsDistanceMatrix(M) ==
    /\ \A a, b \in DOMAIN M.names : M.names[a] = M.names[b] => a = b
    /\ \A i, j \in 0 .. Len(M.names) - 1 :
          i # j => (~IsNaN(EntryAt(M, i, j)) /\ EntryAt(M, i, j) # 0)
    /\ ~TriangleViolatedAllSides(M)

\* C21: validate accepts a matrix only if it is a distance matrix: names
\* pairwise different, no entry off the diagonal zero or NaN, the triangle
\* inequality for all pairwise different i, j, k up to the tolerance; every
\* other matrix ends the run with exit code 1.
C21_ValidateAccepts ==
    (flags.validate_flag /\ pc = "format_sort") => IsDistanceMatrix(self_matrix)

\* the cells (i, j) and (j, i), j < i, of M: <<below, above>> the diagonal
PairOf(M, i, j) == <<EntryAt(M, i, j), EntryAt(M, j, i)>>

\* the positions below the main diagonal of M
BelowDiagonal(M) ==
    {p \in (0 .. Len(M.names) - 1) \X (0 .. Len(M.names) - 1) : p[2] < p[1]}

\* fix has run on the matrix other_matrix and has left self_matrix
FixDone == pc = "format_validate" /\ flags.fix_flag

\* C27 as stated: fix(m) has no negative entry, a zero main diagonal and
\* every pair of cells (i, j), (j, i) equal within the tolerance; pairs
\* that were close enough are as in m; fix(fix(m)) = fix(m).
C27_FixSymmetric ==
    FixDone =>
        /\ \A k \in DOMAIN self_matrix.values : ~FLess(self_matrix.values[k], 0)
        /\ \A i \in 0 .. Len(self_matrix.names) - 1 : EntryAt(self_matrix, i, i) = 0
        /\ \A p \in BelowDiagonal(self_matrix) :
              FCloseEnough(PairOf(self_matrix, p[1], p[2])[1],
                           PairOf(self_matrix, p[1], p[2])[2])
        /\ Fix(self_matrix) = self_matrix

\* C27, amended: fix(m) has no negative entry and a zero main diagonal;
\* every pair of cells (i, j), (j, i), j < i, is close_enough, cell (i, j)
\* first, or, when a cell of the pair was a NaN in m, is a pair of NaN; a
\* pair of m without a negative cell that was close_enough is as in m;
\* fix(fix(m)) = fix(m).
C27_FixSymmetricOrNaN ==
    FixDone =>
        /\ self_matrix.names = other_matrix.names
        /\ \A k \in DOMAIN self_matrix.values : ~FLess(self_matrix.values[k], 0)
        /\ \A i \in 0 .. Len(self_matrix.names) - 1 : EntryAt(self_matrix, i, i) = 0
        /\ \A p \in BelowDiagonal(self_matrix) :
              LET was == PairOf(other_matrix, p[1], p[2])
                  now == PairOf(self_matrix, p[1], p[2])
              IN  /\ IF IsNaN(was[1]) \/ IsNaN(was[2])
                     THEN now = <<FNaN, FNaN>>
                     ELSE FCloseEnough(now[1], now[2])
                  /\ (was[1] >= 0 /\ was[2] >= 0 /\ FCloseEnough(was[1], was[2]))
                        => now = was
        /\ Fix(self_matrix) = self_matrix

\* fix has zeroed a diagonal and a negative cell, averaged a pair and left
\* a pair of different cells that were close enough
C27_Witness ==
    /\ FixDone
    /\ Len(self_matrix.names) = 3
    /\ EntryAt(other_matrix, 0, 0) # 0
    /\ \E k \in DOMAIN other_matrix.values : other_matrix.values[k] < 0
    /\ \E p \in BelowDiagonal(self_matrix) :
          /\ PairOf(other_matrix, p[1], p[2]) = <<2, 20>>
          /\ PairOf(self_matrix, p[1], p[2]) = <<11, 11>>
    /\ \E p \in BelowDiagonal(self_matrix) :
          PairOf(self_matrix, p[1], p[2]) = <<1000, 952>>

-----------------------------------------------------------------------------
(* Claims about mat grep *)

\* the names of M that match the pattern (keep = TRUE) or do not match it
\* (keep = FALSE), in the order of M
NamesWhere(M, pat, keep) ==
    SelectSeq(M.names, LAMBDA x : RegexSearch(x, pat) = keep)

\* C22: grep keeps exactly the names that match the pattern, in their
\* order in the matrix, with their cells; with invert it keeps exactly the
\* names that do not match; the names kept with and without invert are
\* disjoint and are together all names of the matrix.
C22_GrepKeepsMatches ==
    pc = "grep_return" =>
        LET other == Grep(self_matrix, flags.pattern, ~flags.invert)
        IN  /\ result.names = NamesWhere(self_matrix, flags.pattern, ~flags.invert)
            /\ \A a, b \in DOMAIN result.names :
                  CellOf(result, a - 1, b - 1) =
                      EntryByName(self_matrix, result.names[a], result.names[b])
            /\ Range(result.names) \cap Range(other.names) = {}
            /\ Range(result.names) \cup Range(other.names) =
                  Range(self_matrix.names)

\* -v with a pattern that some names match and some do not: names are kept
\* and names are dropped, and a dropped name stands before a kept one
C22_Witness ==
    /\ pc = "grep_return"
    /\ flags.invert
    /\ Len(self_matrix.names) = 3
    /\ Len(result.names) = 2
    /\ RegexSearch(self_matrix.names[1], flags.pattern)
    /\ self_matrix.values[1] # self_matrix.values[2]

-----------------------------------------------------------------------------
(* Claims about the edges quartet_all evaluates *)

\* the node at the end of the branch `side` of the node self
ChildAt(self, side) ==
    CASE side = "left" -> self.left_branch
      [] side = "right" -> self.right_branch
      [] side = "extra" -> self.extra_branch

\* the support field of the branch `side` of the node self
SupportAt(self, side) ==
    CASE side = "left" -> self.left_support
      [] side = "right" -> self.right_support
      [] side = "extra" -> self.extra_support

\* the node with handle h has children
IsInternal(P, h) == h # NULL /\ P[h].left_branch # NULL

\* the branches of the tree: the two of every joined node, the three of
\* the root
TreeBranches ==
    {<<i, sd>> \in (0 .. size - 2) \X {"left", "right", "extra"} :
        /\ i < size - 2 => (sd # "extra" /\ size + i < empty_node_ptr)
        /\ i = size - 2 => TRUE}

\* C23 as stated: the support function is called for a branch only if the
\* two children of the node at its end, the roots of the classes A and B,
\* are both internal nodes.
C23_BothChildrenInternal ==
    pc = "support_call" =>
        LET child == ChildAt(NodeAt(pool, root, size, qi), qside)
        IN  /\ IsInternal(pool, pool[child].left_branch)
            /\ IsInternal(pool, pool[child].right_branch)

\* C23, amended: the support function is called for a branch only if the
\* node at the end of the branch is an internal node; its two children,
\* leaves or not, are the roots of A and B.  A branch that ends in a leaf
\* is not evaluated and keeps the support 0; the same for the extra branch
\* of the root.
C23_ChildInternal ==
    /\ pc = "support_call" =>
          /\ <<qi, qside>> \in TreeBranches
          /\ IsInternal(pool, ChildAt(NodeAt(pool, root, size, qi), qside))
    /\ (pc = "to_newick" /\ support) =>
          \A b \in TreeBranches :
              LET self == NodeAt(pool, root, size, b[1])
              IN  ~IsInternal(pool, ChildAt(self, b[2])) =>
                      SupportAt(self, b[2]) = <<0, 1>>

\* the support function is called for a branch that ends in a node with two
\* leaves as children
C23_Witness ==
    /\ pc = "support_call"
    /\ LET child == ChildAt(NodeAt(pool, root, size, qi), qside)
       IN  /\ IsInternal(pool, child)
           /\ ~IsInternal(pool, pool[child].left_branch)
           /\ ~IsInternal(pool, pool[child].right_branch)

-----------------------------------------------------------------------------
(* Claims about the loop of nj *)

\* the slot, before the join, of the node that the slot x of the new active
\* window holds (x is not the slot of the new node)
SlotBefore(x, k, mj) == IF x = mj THEN k - 1 ELSE x

\* C24: a join of (i*, j*) at active size k leaves, within the active
\* window of size k - 1: in slot i* the new node with the distance
\* (M[i*][m] + M[j*][m] - M[i*][j*]) / 2, of the matrix before the join, to
\* every other remaining node m; in slot j* the node of the slot k - 1 with
\* its distances, of the matrix before the join, to the untouched nodes; 0
\* on the diagonal of both slots; and M[a][b] = M[b][a] for every pair with
\* a slot i* or j*.
C24_JoinUpdate ==
    [][(pc = "nj_join") =>
        LET k == n
            window == 0 .. k - 2
            old == local_copy
            new == local_copy'
        IN  /\ unjoined_nodes'[min_i] = empty_node_ptr
            /\ pool'[empty_node_ptr].left_branch = unjoined_nodes[min_i]
            /\ pool'[empty_node_ptr].right_branch = unjoined_nodes[min_j]
            /\ \A x \in window \ {min_i} :
                  2 * new[min_i][x] =
                      old[min_i][SlotBefore(x, k, min_j)]
                      + old[min_j][SlotBefore(x, k, min_j)]
                      - old[min_i][min_j]
            /\ new[min_i][min_i] = 0
            /\ \A a \in window : new[a][min_i] = new[min_i][a]
            /\ min_j \in window =>
                  /\ unjoined_nodes'[min_j] = unjoined_nodes[k - 1]
                  /\ \A x \in window \ {min_i, min_j} :
                        new[min_j][x] = old[k - 1][x]
                  /\ new[min_j][min_j] = 0
                  /\ \A a \in window : new[a][min_j] = new[min_j][a]
            /\ \A x \in window \ {min_i, min_j} :
                  unjoined_nodes'[x] = unjoined_nodes[x]]_vars

\* after the first join of five names the node of the last slot stands in
\* slot j*, which is neither the last slot nor next to slot i*
C24_Witness ==
    /\ pc = "nj_select"
    /\ size = 5
    /\ n = 4
    /\ min_j < 4
    /\ min_i + 1 < min_j
    /\ unjoined_nodes[min_j] = 4
    /\ unjoined_nodes[min_i] = 5

\* the loop of nj is at work on the current matrix
InNjLoop == pc = "nj_select" \/ pc = "nj_join"

LeafSet(h) == {x \in 0 .. size - 1 : Paths(pool, h, x) >= 1}

\* the subtree that quartet_left, quartet_right and the root->extra case
\* take as the far side of the branch `side` of the node self
FarSide(self, side) ==
    CASE side = "left" -> self.right_branch
      [] side = "right" -> self.left_branch
      [] side = "extra" -> self.left_branch

\* C26: for every edge that is evaluated, the coloring gives every leaf
\* exactly one class: A is the leaf set of the left subtree of the child, B
\* the leaf set of its right subtree, C the leaf set of the sibling subtree
\* taken as the far side, D all other leaves.
C26_Coloring ==
    pc = "support_call" =>
        LET self == NodeAt(pool, root, size, qi)
            child == ChildAt(self, qside)
            A == LeafSet(pool[child].left_branch)
            B == LeafSet(pool[child].right_branch)
            C == LeafSet(FarSide(self, qside))
        IN  /\ DOMAIN buffer = 0 .. size - 1
            /\ \A x \in DOMAIN buffer : buffer[x] \in {SET_A, SET_B, SET_C, SET_D}
            /\ A \cap B = {} /\ A \cap C = {} /\ B \cap C = {}
            /\ ClassOf(buffer, size, SET_A) = A
            /\ ClassOf(buffer, size, SET_B) = B
            /\ ClassOf(buffer, size, SET_C) = C
            /\ ClassOf(buffer, size, SET_D) = (0 .. size - 1) \ (A \cup B \cup C)

\* the right branch of a node is evaluated on five leaves and one of the
\* classes holds two leaves
C26_Witness ==
    /\ pc = "support_call"
    /\ qside = "right"
    /\ size = 5
    /\ \E c \in {SET_A, SET_B, SET_C, SET_D} :
          Cardinality(ClassOf(buffer, size, c)) = 2


\* quartet_all is running
InQuartetAll ==
    pc = "quartet_all" \/ pc = "support_call" \/ pc = "support_return"

\* the pool slot after the last joined node: inner_nodes[size - 3]
UnusedSlot == 2 * size - 3

\* C28: every call of the support function made by quartet_all gets a
\* coloring with four non-empty classes, so the number of quartets
\* |A|*|B|*|C|*|D| is at least 1; the pool slot 2n-3 the loop visits is
\* unused, has no children and none of its branches is evaluated.
C28_FourClasses ==
    /\ pc = "support_call" =>
          /\ \A c \in {SET_A, SET_B, SET_C, SET_D} :
                ClassOf(buffer, size, c) # {}
          /\ Cardinality(AllQuartets(buffer, size)) >= 1
          /\ qi # size - 3
    /\ InQuartetAll =>
          /\ empty_node_ptr = UnusedSlot
          /\ pool[UnusedSlot].left_branch = NULL
          /\ pool[UnusedSlot].right_branch = NULL
          /\ ~Evaluates(pool, NodeAt(pool, root, size, size - 3), "left")
          /\ ~Evaluates(pool, NodeAt(pool, root, size, size - 3), "right")

\* the loop has passed the unused slot and the support function is called
\* for the extra branch of the root of a tree of five leaves
C28_Witness ==
    /\ pc = "support_call"
    /\ size = 5
    /\ qi = size - 2
    /\ qside = "extra"
    /\ Cardinality(AllQuartets(buffer, size)) = 2


-----------------------------------------------------------------------------
(* Claims about the loops of mantel, rmsd and Z *)

\* every entry the loops have read has both indices in [0, size)
ReadsInRange ==
    \A e \in loops.entries :
        /\ e[1] \in 0 .. Len(new_self.names) - 1
        /\ e[2] \in 0 .. Len(new_self.names) - 1

\* C29: mantel and its helpers read only entries with both indices in
\* [0, size), and with fewer than two common names the body of the loops
\* over the pairs runs zero times.
C29_LoopsInRange ==
    (pc = "mantel_trials" \/ pc = "mantel_return") =>
        /\ ReadsInRange
        /\ Len(new_self.names) < 2 => loops.outer = 0


-----------------------------------------------------------------------------
(* Claims about nj on additive matrices *)

\* The distances of M are the path lengths of an unrooted binary tree with
\* positive edge lengths (four-point condition): M is symmetric with a zero
\* diagonal, every leaf is at a positive distance from the path between
\* two others, and of the three sums of a quadruple the two largest are
\* equal and greater than the third.
Additive(M, s) ==
    /\ \A i, j \in 0 .. s - 1 : M[i][j] = M[j][i] /\ M[i][i] = 0
    /\ \A i, j, k \in 0 .. s - 1 :
          Cardinality({i, j, k}) = 3 => M[i][j] + M[i][k] - M[j][k] > 0
    /\ \A i, j, k, l \in 0 .. s - 1 :
          Cardinality({i, j, k, l}) = 4 =>
              LET a == M[i][j] + M[k][l]
                  b == M[i][k] + M[j][l]
                  c == M[i][l] + M[j][k]
              IN  \/ a < b /\ b = c
                  \/ b < a /\ a = c
                  \/ c < a /\ a = b

RECURSIVE Down(_, _, _)
\* the sum of the branch lengths on the way down from the node h to t
Down(P, h, t) ==
    IF h = t THEN 0
    ELSE IF Paths(P, P[h].left_branch, t) >= 1
         THEN P[h].left_dist + Down(P, P[h].left_branch, t)
         ELSE P[h].right_dist + Down(P, P[h].right_branch, t)

\* the sum of the branch lengths between the root and the node t
FromRoot(t) ==
    LET c == CHOOSE x \in {root.left_branch, root.right_branch,
                           root.extra_branch} : Paths(pool, x, t) >= 1
    IN  RootLengthTo(c) + Down(pool, c, t)

\* the sum of the branch lengths along the path between the leaves a and b
TreeDist(a, b) ==
    LET above == {h \in size .. 2 * size - 4 :
                     Paths(pool, h, a) >= 1 /\ Paths(pool, h, b) >= 1}
    IN  IF above = {} THEN FromRoot(a) + FromRoot(b)
        ELSE LET h == CHOOSE x \in above :
                         \A g \in above : g = x \/ Paths(pool, x, g) = 0
             IN  Down(pool, h, a) + Down(pool, h, b)

\* C30: in the tree nj returns for an additive matrix the branch lengths
\* along the path between any two leaves add up to their input distance,
\* and no branch length is negative.
C30_AdditiveExact ==
    (TreeBuilt /\ size >= MinSize /\ Additive(m, size)) =>
        /\ \A p \in UpperPairs(size) :
              TreeDist(p[1], p[2]) = m[p[1]][p[2]] * Scale(size)
        /\ \A h \in size .. 2 * size - 4 :
              pool[h].left_dist >= 0 /\ pool[h].right_dist >= 0
        /\ root.left_dist >= 0 /\ root.right_dist >= 0 /\ root.extra_dist >= 0

\* a finished tree of five leaves for an additive matrix, with two joins
\* and branches of different lengths
C30_Witness ==
    /\ pc = "to_newick"
    /\ size = 5
    /\ Additive(m, size)
    /\ \E h \in size .. 2 * size - 4 : pool[h].left_dist # pool[h].right_dist

=========================================================================
